---- MODULE Spec2Model ----
(***************************************************************************)
(* Model of streamlit_app.py, the IEC TS 62915:2023 retesting planner.     *)
(*                                                                         *)
(* The script is re-executed top to bottom on every interaction.  The      *)
(* widget state (technology, program, gate inputs, selected modifications  *)
(* and the parameters of the rendered panels) is what survives between     *)
(* runs; the plan, the notes and the sequence flags are rebuilt by the     *)
(* run that the "Generate Retest Plan" button triggers.                    *)
(*                                                                         *)
(* Python values are tagged records (None, bool, number, string) so that   *)
(* truthiness, dict.get defaults and the TypeError of an ordering          *)
(* comparison with None are modelled as Python evaluates them.             *)
(* Percentages are integers; non-ASCII characters of the source strings    *)
(* are transliterated.                                                     *)
(***************************************************************************)
EXTENDS Integers, Sequences, FiniteSets, TLC

VARIABLES tech, program, gate_block, gate_input, mods, params,
          plan, seq_flags, gate_results, df, notes, status, call

vars == <<tech, program, gate_block, gate_input, mods, params,
          plan, seq_flags, gate_results, df, notes, status, call>>

inputs == <<tech, program, gate_block, gate_input, mods, params>>

outputs == <<plan, seq_flags, gate_results, df, notes>>

(***************************************************************************)
(* Python values                                                           *)
(***************************************************************************)
None == [t |-> "none"]

B(x) == [t |-> "bool", b |-> x]

N(x) == [t |-> "num", n |-> x]

S(x) == [t |-> "str", s |-> x]

\* bool(v): None, False, 0 and "" are falsy
Truthy(v) ==
  CASE v.t = "none" -> FALSE
    [] v.t = "bool" -> v.b
    [] v.t = "num"  -> v.n # 0
    [] v.t = "str"  -> v.s # ""

\* the number an ordering comparison sees (bool is a subclass of int)
Num(v) ==
  CASE v.t = "bool" -> (IF v.b THEN 1 ELSE 0)
    [] v.t = "num"  -> v.n
    [] OTHER        -> 0

\* v < 0, v > 10.0, ... raise TypeError when v is None or a string
CmpRaises(v) == v.t \in {"none", "str"}

\* dict.get(k, d): the default applies only when the key is missing
Get(p, k, d) == IF k \in DOMAIN p THEN p[k] ELSE d

\* p.get(k) == "glass"
IsStr(v, x) == v.t = "str" /\ v.s = x

\* v or 0.0
OrZero(v) == IF Truthy(v) THEN v ELSE N(0)

EmptyDict == [k \in {} |-> None]

(***************************************************************************)
(* Data dictionaries                                                       *)
(***************************************************************************)
\* the dictionary without the bifacial variant of the bypass diode test
TESTS_61215_without_18_1 ==
  [c \in {"MQT 01", "MQT 03", "MQT 04", "MQT 06.1", "MQT 07", "MQT 09",
          "MQT 10", "MQT 11-50", "MQT 11-200", "MQT 12", "MQT 13",
          "MQT 14.1", "MQT 14.2", "MQT 15", "MQT 16", "MQT 17", "MQT 18",
          "MQT 19", "MQT 20", "MQT 21", "MQT 22"} |-> "IEC 61215 test"]

TESTS_61215 ==
  [c \in {"MQT 01", "MQT 03", "MQT 04", "MQT 06.1", "MQT 07", "MQT 09",
          "MQT 10", "MQT 11-50", "MQT 11-200", "MQT 12", "MQT 13",
          "MQT 14.1", "MQT 14.2", "MQT 15", "MQT 16", "MQT 17", "MQT 18",
          "MQT 18.1", "MQT 19", "MQT 20", "MQT 21", "MQT 22"} |->
   CASE c = "MQT 01"     -> "Visual inspection"
     [] c = "MQT 03"     -> "Insulation test (61215 context)"
     [] c = "MQT 04"     -> "Measurement of temperature coefficients"
     [] c = "MQT 06.1"   -> "Performance at STC"
     [] c = "MQT 07"     -> "Performance at low irradiance"
     [] c = "MQT 09"     -> "Hot-spot endurance"
     [] c = "MQT 10"     -> "UV preconditioning"
     [] c = "MQT 11-50"  -> "Thermal cycling (50 cycles)"
     [] c = "MQT 11-200" -> "Thermal cycling (200 cycles)"
     [] c = "MQT 12"     -> "Humidity freeze"
     [] c = "MQT 13"     -> "Damp heat"
     [] c = "MQT 14.1"   -> "Robustness of terminations - retention of junction box on mounting surface"
     [] c = "MQT 14.2"   -> "Robustness of terminations - cord anchorage"
     [] c = "MQT 15"     -> "Wet leakage current test (61215 context)"
     [] c = "MQT 16"     -> "Static mechanical load"
     [] c = "MQT 17"     -> "Hail test"
     [] c = "MQT 18"     -> "Bypass diode thermal test"
     [] c = "MQT 18.1"   -> "Bypass diode thermal test (bifacial context)"
     [] c = "MQT 19"     -> "Stabilization"
     [] c = "MQT 20"     -> "Cyclic (dynamic) mechanical load"
     [] c = "MQT 21"     -> "Potential-induced degradation (PID)"
     [] c = "MQT 22"     -> "Bending test (flexible module)"]

TESTS_61730 ==
  [c \in {"MST 01", "MST 03", "MST 04", "MST 05", "MST 06", "MST 07",
          "MST 11", "MST 12", "MST 13", "MST 14", "MST 16", "MST 17",
          "MST 22", "MST 24", "MST 25", "MST 26", "MST 32", "MST 33",
          "MST 34", "MST 35", "MST 36", "MST 37", "MST 42", "MST 51-50",
          "MST 51-200", "MST 52", "MST 53", "MST 54", "MST 57"} |->
   CASE c = "MST 01"     -> "Visual inspection (61730 context)"
     [] c = "MST 03"     -> "Insulation test (61730 context)"
     [] c = "MST 04"     -> "Insulation thickness test"
     [] c = "MST 05"     -> "Durability of markings"
     [] c = "MST 06"     -> "Sharp edges"
     [] c = "MST 07"     -> "Bypass diode functionality"
     [] c = "MST 11"     -> "Accessibility test"
     [] c = "MST 12"     -> "Cut susceptibility test"
     [] c = "MST 13"     -> "Continuity of equipotential bonding"
     [] c = "MST 14"     -> "Impulse voltage test"
     [] c = "MST 16"     -> "Wet leakage current test (61730 context)"
     [] c = "MST 17"     -> "Ground continuity test"
     [] c = "MST 22"     -> "Hot-spot endurance"
     [] c = "MST 24"     -> "Ignitability"
     [] c = "MST 25"     -> "Bypass diode thermal (61730 numbering in some editions)"
     [] c = "MST 26"     -> "Reverse current overload"
     [] c = "MST 32"     -> "Module breakage"
     [] c = "MST 33"     -> "Screw connections test"
     [] c = "MST 34"     -> "Static mechanical load"
     [] c = "MST 35"     -> "Peel test (cemented joints)"
     [] c = "MST 36"     -> "Lap shear strength (cemented joints)"
     [] c = "MST 37"     -> "Materials creep"
     [] c = "MST 42"     -> "Robustness of terminations (61730)"
     [] c = "MST 51-50"  -> "Thermal cycling (50 cycles)"
     [] c = "MST 51-200" -> "Thermal cycling (200 cycles)"
     [] c = "MST 52"     -> "Humidity freeze"
     [] c = "MST 53"     -> "Damp heat"
     [] c = "MST 54"     -> "UV test"
     [] c = "MST 57"     -> "Insulation coordination evaluation (61730-1 reference)"]

(***************************************************************************)
(* Utilities.  The plan dict is the sequence of its entries in insertion   *)
(* order; an entry carries its key.                                        *)
(***************************************************************************)
NOTES_KEY == <<"NOTES", "NOTES">>

\* key in plan
HasKey(pl, key) == \E i \in 1..Len(pl) : pl[i].key = key

\* position of plan[key]
IndexOf(pl, key) == CHOOSE i \in 1..Len(pl) : pl[i].key = key

\* add_test appending a row on every call (no dedup)
add_test_nodedup(pl, standard, code, reason, clause) ==
  LET name == IF standard = "IEC 61215"
              THEN Get(TESTS_61215, code, code)
              ELSE Get(TESTS_61730, code, code)
  IN Append(pl, [key |-> <<standard, code>>, Standard |-> standard,
                 TestID |-> code, TestName |-> name,
                 Reasons |-> IF reason # "" THEN {reason} ELSE {},
                 Clauses |-> IF clause # "" THEN {clause} ELSE {},
                 Notes |-> {}])

\* add_test with plan[key] assigned anew on every call
add_test_overwrite(pl, standard, code, reason, clause) ==
  LET key == <<standard, code>>
  IN IF ~HasKey(pl, key) THEN add_test_nodedup(pl, standard, code, reason, clause)
     ELSE [pl EXCEPT ![IndexOf(pl, key)].Reasons = IF reason # "" THEN {reason} ELSE {},
                     ![IndexOf(pl, key)].Clauses = IF clause # "" THEN {clause} ELSE {}]

add_test(pl, standard, code, reason, clause) ==
  LET key  == <<standard, code>>
      name == IF standard = "IEC 61215"
              THEN Get(TESTS_61215, code, code)
              ELSE Get(TESTS_61730, code, code)
  IN IF ~HasKey(pl, key)
     THEN Append(pl, [key |-> key, Standard |-> standard, TestID |-> code,
                      TestName |-> name,
                      Reasons |-> IF reason # "" THEN {reason} ELSE {},
                      Clauses |-> IF clause # "" THEN {clause} ELSE {},
                      Notes |-> {}])
     ELSE LET i == IndexOf(pl, key)
          IN [pl EXCEPT ![i].Reasons = IF reason # "" THEN @ \cup {reason} ELSE @,
                        ![i].Clauses = IF clause # "" THEN @ \cup {clause} ELSE @]

add_note(pl, note) ==
  LET pl1 == IF HasKey(pl, NOTES_KEY) THEN pl
             ELSE Append(pl, [key |-> NOTES_KEY, NotesOnly |-> <<>>])
      i   == IndexOf(pl1, NOTES_KEY)
  IN [pl1 EXCEPT ![i].NotesOnly = Append(@, note)]

add_sequence_flag(seq_set, flag, clause) == seq_set \cup {<<flag, clause>>}

(***************************************************************************)
(* A rule function is the sequence of the calls it makes, in program       *)
(* order; Raise stands for the TypeError of a comparison with None, which  *)
(* ends the function with the calls made so far in effect.                 *)
(***************************************************************************)
\* add_test called without a clause reference
T_unreferenced(standard, code, reason, clause) ==
  [op |-> "test", standard |-> standard, code |-> code, reason |-> reason, clause |-> ""]

T(standard, code, reason, clause) ==
  [op |-> "test", standard |-> standard, code |-> code, reason |-> reason,
   clause |-> clause]

Note(note) == [op |-> "note", note |-> note]

Flag(flag, clause) == [op |-> "flag", flag |-> flag, clause |-> clause]

Raise == [op |-> "raise"]

When(c, ops) == IF c THEN ops ELSE <<>>

\* the run state threaded through the calls
RunState(pl, sq) == [plan |-> pl, seq_flags |-> sq, raised |-> FALSE]

Step(st, o) ==
  IF st.raised THEN st
  ELSE CASE o.op = "test"  -> [st EXCEPT !.plan = add_test(@, o.standard, o.code, o.reason, o.clause)]
         [] o.op = "note"  -> [st EXCEPT !.plan = add_note(@, o.note)]
         [] o.op = "flag"  -> [st EXCEPT !.seq_flags = add_sequence_flag(@, o.flag, o.clause)]
         [] o.op = "raise" -> [st EXCEPT !.raised = TRUE]

RECURSIVE Apply(_, _)
Apply(st, ops) ==
  IF ops = <<>> THEN st ELSE Apply(Step(st, Head(ops)), Tail(ops))

\* the baseline without the stabilization test
baseline_checks_no_stabilization(include_61215, include_61730) ==
  When(include_61215,
       [i \in 1..4 |-> T("IEC 61215",
                         <<"MQT 01", "MQT 03", "MQT 06.1", "MQT 15">>[i],
                         "Baseline initial/final measurements per 4.1", "4.1")])
  \o When(include_61730,
       [i \in 1..4 |-> T("IEC 61730",
                         <<"MST 01", "MST 03", "MST 16", "MST 17">>[i],
                         "Baseline checks per 4.1 (61730 program)", "4.1")])

baseline_checks(include_61215, include_61730) ==
  When(include_61215,
       [i \in 1..5 |-> T("IEC 61215",
                         <<"MQT 01", "MQT 03", "MQT 06.1", "MQT 15", "MQT 19">>[i],
                         "Baseline initial/final measurements per 4.1", "4.1")])
  \o When(include_61730,
       [i \in 1..4 |-> T("IEC 61730",
                         <<"MST 01", "MST 03", "MST 16", "MST 17">>[i],
                         "Baseline checks per 4.1 (61730 program)", "4.1")])

(***************************************************************************)
(* Rule engine                                                             *)
(***************************************************************************)
\* p.get(k, False) and p.get(k) used as a condition: falsy when missing
Tr(p, k) == Truthy(Get(p, k, B(FALSE)))

\* p.get(k, True) read as if the default were False
TrDefaultTrue_false(p, k) == Truthy(Get(p, k, B(FALSE)))

\* p.get(k, True) used as a condition: truthy when missing
TrDefaultTrue(p, k) == Truthy(Get(p, k, B(TRUE)))

\* the thickness change without its sign
ThicknessChange_unsigned(p) ==
  LET x == Num(OrZero(Get(p, "thickness_change_pct", None))) IN IF x < 0 THEN -x ELSE x

\* p.get("thickness_change_pct") or 0.0
ThicknessChange(p) == Num(OrZero(Get(p, "thickness_change_pct", None)))

\* the carve-out read off the outside-surface-only flag alone
OutsideSurfaceOnly_flag_alone(p) == Tr(p, "outside_surface_only")

\* surface_change and p.get("outside_surface_only", False)
OutsideSurfaceOnly(p) == Tr(p, "surface_treatment_changed") /\ Tr(p, "outside_surface_only")

\* the UV cutoff taken as not below the previous one unless it is said to be
PollutionDegree1_whatever(p) == TRUE

\* p.get("pollution_degree_1", False)
PollutionDegree1(p) == Tr(p, "pollution_degree_1")

UVCutoffNotBelow_unless_below(p) ==
  ~IsStr(Get(p, "ar_lambda_c_uv_change", S("unknown")), "< previous")

\* ar_cmp == ">= previous", with ar_cmp = p.get("ar_lambda_c_uv_change", "unknown")
UVCutoffNotBelow(p) == IsStr(Get(p, "ar_lambda_c_uv_change", S("unknown")), ">= previous")

rules_frontsheet(p, tech_, include_61215, include_61730) ==
  LET glass == IsStr(Get(p, "material_type", None), "glass")
      non_glass == ~glass
      thickness_change == ThicknessChange(p)
      surface_change == Tr(p, "surface_treatment_changed")
      ar_prev == UVCutoffNotBelow(p)
      strengthen_change == Tr(p, "strengthening_change")
      model_designation_change == Tr(p, "model_designation_change")
      glass_to_from_nonglass == Tr(p, "glass_to_poly_or_vice_versa")
      c == "4.2.1/4.3.1"
  IN When(glass_to_from_nonglass,
          <<Note("Frontsheet change between glass and non-glass suggests full qualification (TS 4.2.1/4.3.1).")>>)
     \o When(include_61215,
          When(glass /\ (strengthen_change \/ thickness_change < 0),
               <<T("IEC 61215", "MQT 09", "Frontsheet: glass strength/thickness change", c)>>)
          \o When(non_glass /\ (model_designation_change \/ thickness_change < 0),
               <<T("IEC 61215", "MQT 09", "Frontsheet non-glass model/thickness change", c)>>)
          \o When(~(glass /\ ar_prev),
               <<T("IEC 61215", "MQT 10", "UV preconditioning for frontsheet change", c),
                 T("IEC 61215", "MQT 20", "Cyclic (dynamic) mechanical load", c),
                 T("IEC 61215", "MQT 11-50", "Thermal cycling 50 cycles", c),
                 T("IEC 61215", "MQT 12", "Humidity freeze", c)>>
               \o When(Tr(p, "jb_on_frontsheet"),
                    <<T("IEC 61215", "MQT 14.1", "Retention of J-box on frontsheet", c)>>))
          \o When(non_glass \/ surface_change,
               <<T("IEC 61215", "MQT 13", "Damp heat for frontsheet change", c)>>)
          \o When(Tr(p, "flexible_module") /\ non_glass,
               <<T("IEC 61215", "MQT 22", "Bending test for flexible non-glass", c)>>)
          \o When(~OutsideSurfaceOnly(p),
               <<T("IEC 61215", "MQT 16", "Static mechanical load (frontsheet)", c)>>)
          \o When(~OutsideSurfaceOnly(p),
               <<T("IEC 61215", "MQT 17", "Hail test (frontsheet change)", c)>>))
     \o When(include_61730,
          When(~(glass /\ ar_prev),
               <<T("IEC 61730", "MST 54", "UV test for frontsheet change", c),
                 T("IEC 61730", "MST 51-50", "Thermal cycling 50 cycles", c),
                 T("IEC 61730", "MST 52", "Humidity freeze", c)>>
               \o When(Tr(p, "jb_on_frontsheet"),
                    <<T("IEC 61730", "MST 42", "Robustness of terminations (frontsheet J-box)", c)>>))
          \o When(non_glass \/ surface_change,
               <<T("IEC 61730", "MST 53", "Damp heat for frontsheet change", c)>>)
          \o When(~OutsideSurfaceOnly(p),
               <<T("IEC 61730", "MST 34", "Static mechanical load (frontsheet)", c)>>)
          \o When(non_glass,
               <<T("IEC 61730", "MST 04", "Insulation thickness test (non-glass)", c),
                 T("IEC 61730", "MST 12", "Cut susceptibility (non-glass)", c)>>
               \o When(model_designation_change \/ thickness_change < 0,
                    <<T("IEC 61730", "MST 14", "Impulse voltage test (non-glass changed/reduced)", c)>>)
               \o <<T("IEC 61730", "MST 24", "Ignitability (non-glass)", c),
                    Flag("SEQ_B", c)>>)
          \o When(glass /\ ~OutsideSurfaceOnly(p),
               <<T("IEC 61730", "MST 32", "Module breakage (glass)", c)>>)
          \o When(Tr(p, "cemented_joint"),
               <<T("IEC 61730", "MST 35", "Peel test (cemented joint)", c),
                 T("IEC 61730", "MST 36", "Lap shear (cemented joint)", c)>>))

\* a reduction of 20 percent taken as one of more than 20 percent
ReducedOver20_or_just(p) == ThicknessChange(p) <= -20

\* thickness_change < -20.0
ReducedOver20(p) == ThicknessChange(p) < -20

rules_encapsulation(p, tech_, include_61215, include_61730) ==
  LET diff_mat == Tr(p, "different_material")
      add_change == Tr(p, "additives_change_same_material")
      thickness_change == ThicknessChange(p)
      flexible == Tr(p, "flexible_module")
      rho_drop_order == Get(p, "volume_resistivity_drop_order", N(0))
      c == "4.2.2/4.3.2"
  IN When(include_61215,
          <<T("IEC 61215", "MQT 09", "Encapsulation change", c),
            T("IEC 61215", "MQT 10", "UV preconditioning", c)>>
          \o When(~add_change,
               <<T("IEC 61215", "MQT 20", "Cyclic (dynamic) mechanical load", c)>>)
          \o <<T("IEC 61215", "MQT 11-50", "Thermal cycling 50", c),
               T("IEC 61215", "MQT 12", "Humidity freeze", c)>>
          \o When(ReducedOver20(p),
               <<T("IEC 61215", "MQT 11-200", "Thermal cycling 200 (thickness reduction >20%)", c)>>)
          \o <<T("IEC 61215", "MQT 13", "Damp heat", c)>>
          \o When(Tr(p, "frontsheet_polymeric") /\ (diff_mat \/ ~add_change),
               <<T("IEC 61215", "MQT 17", "Hail test (polymeric frontsheet)", "4.2.2")>>)
          \o When(Truthy(rho_drop_order) /\ Num(rho_drop_order) >= 1,
               <<T("IEC 61215", "MQT 21", "PID (volume resistivity decrease >=1 order)", "4.2.2")>>)
          \o When(flexible,
               <<T("IEC 61215", "MQT 22", "Bending test (flexible)", "4.2.2")>>))
     \o When(include_61730,
          <<T("IEC 61730", "MST 22", "Hot-spot endurance", c),
            T("IEC 61730", "MST 54", "UV", c),
            T("IEC 61730", "MST 51-50", "Thermal cycling 50", c),
            T("IEC 61730", "MST 52", "Humidity freeze", c),
            T("IEC 61730", "MST 53", "Damp heat", c)>>
          \o When(ReducedOver20(p),
               <<T("IEC 61730", "MST 51-200", "Thermal cycling 200 (thickness reduction >20%)", c)>>)
          \o When(TrDefaultTrue(p, "front_or_back_polymeric"),
               <<T("IEC 61730", "MST 12", "Cut susceptibility (polymeric outer)", c)>>)
          \o When(diff_mat \/ thickness_change < 0,
               <<T("IEC 61730", "MST 14", "Impulse voltage (reduced thickness/different material)", c)>>)
          \o When(Tr(p, "material_changed_composition"),
               <<T("IEC 61730", "MST 32", "Module breakage (material composition change)", "4.2.2")>>)
          \o When(Tr(p, "cemented_joint"),
               <<T("IEC 61730", "MST 35", "Peel test (cemented joint)", "4.2.2"),
                 T("IEC 61730", "MST 36", "Lap shear (cemented joint)", "4.2.2")>>)
          \o <<T("IEC 61730", "MST 37", "Materials creep (as applicable)", "4.2.2")>>
          \o When(diff_mat \/ thickness_change < 0, <<Flag("SEQ_B", "4.2.2")>>)
          \o When(PollutionDegree1(p), <<Flag("SEQ_B1", "4.2.2")>>))

\* a guarded block whose condition compares v with a number: the comparison
\* raises on None, otherwise the block runs when the condition holds
Cmp(v, cond, ops) == IF CmpRaises(v) THEN <<Raise>> ELSE When(cond, ops)

rules_cell_technology_wbt(p, include_61215, include_61730) ==
  LET ct == Get(p, "cell_thickness_reduction_pct", N(0))
      cryst == Tr(p, "crystallization_change")
      c == "4.2.3"
  IN When(include_61215,
          <<T("IEC 61215", "MQT 20", "Dyn mech load (cell tech change)", c),
            T("IEC 61215", "MQT 11-50", "Thermal cycling 50", c),
            T("IEC 61215", "MQT 12", "Humidity freeze", c)>>
          \o When(Tr(p, "tech_change") \/ Tr(p, "ar_change") \/ cryst \/ Tr(p, "manufacturer_change"),
               <<T("IEC 61215", "MQT 21", "PID (cell technology/AR/crystallization/manufacturer change)", c)>>)
          \o <<T("IEC 61215", "MQT 09", "Hot-spot endurance (cell tech change)", c),
               T("IEC 61215", "MQT 11-200", "Thermal cycling 200", c),
               T("IEC 61215", "MQT 13", "Damp heat (cell tech change)", c)>>
          \o Cmp(ct, Num(ct) < 0 \/ cryst,
               <<T("IEC 61215", "MQT 16", "Static mechanical load (thickness/crystallization)", c)>>)
          \o Cmp(ct, Num(ct) < 0,
               <<T("IEC 61215", "MQT 17", "Hail (reduced cell thickness)", c)>>))
     \o When(include_61730,
          <<T("IEC 61730", "MST 22", "Hot-spot endurance (cell tech)", c),
            T("IEC 61730", "MST 51-200", "Thermal cycling 200", c),
            T("IEC 61730", "MST 53", "Damp heat (cell tech)", c)>>
          \o Cmp(ct, Num(ct) < 0 \/ cryst,
               <<T("IEC 61730", "MST 34", "Static mechanical load (thickness/crystallization)", c)>>)
          \o When(~cryst,
               <<T("IEC 61730", "MST 26", "Reverse current overload (cell tech)", c)>>))

rules_interconnect_wbt(p, include_61215, include_61730) ==
  LET c == "4.2.4"
      mat == Tr(p, "different_material") \/ Tr(p, "solder_flux_change")
  IN When(include_61215,
          <<T("IEC 61215", "MQT 09", "Hot-spot (bond/IC material/adhesive/flux change)", c),
            T("IEC 61215", "MQT 11-200", "Thermal cycling 200", c)>>
          \o When(mat, <<T("IEC 61215", "MQT 13", "Damp heat (material/flux change)", c)>>))
     \o When(include_61730,
          <<T("IEC 61730", "MST 22", "Hot-spot (bond/IC material/adhesive/flux change)", c),
            T("IEC 61730", "MST 51-200", "Thermal cycling 200", c)>>
          \o When(mat, <<T("IEC 61730", "MST 53", "Damp heat (material/flux change)", c)>>)
          \o <<T("IEC 61730", "MST 26", "Reverse current overload", c)>>)

rules_backsheet(p, tech_, include_61215, include_61730) ==
  LET glass == IsStr(Get(p, "material_type", None), "glass")
      non_glass == ~glass
      thickness_change == ThicknessChange(p)
      surface_change == Tr(p, "surface_treatment_changed")
      outside_only == Tr(p, "outside_surface_only")
      c == "4.2.5/4.3.9"
  IN When(include_61215,
          <<T("IEC 61215", "MQT 10", "UV preconditioning", c),
            T("IEC 61215", "MQT 20", "Cyclic (dynamic) mechanical load", c),
            T("IEC 61215", "MQT 11-50", "Thermal cycling 50", c),
            T("IEC 61215", "MQT 12", "Humidity freeze", c)>>
          \o When(Tr(p, "jb_on_backsheet"),
               <<T("IEC 61215", "MQT 14.1", "Retention of J-box on mounting surface", c)>>)
          \o When(non_glass \/ surface_change,
               <<T("IEC 61215", "MQT 13", "Damp heat (backsheet)", c)>>)
          \o When(Tr(p, "flexible_module") /\ non_glass,
               <<T("IEC 61215", "MQT 22", "Bending test (flexible)", c)>>)
          \o When(glass \/ Tr(p, "mounting_depends_on_backsheet"),
               <<T("IEC 61215", "MQT 16", "Static mechanical load (backsheet)", c)>>)
          \o When(Tr(p, "rigidity_depends_on_backsheet"),
               <<T("IEC 61215", "MQT 17", "Hail (rigidity depends on backsheet)", c)>>)
          \o When((glass /\ (Tr(p, "strengthening_change") \/ thickness_change < 0))
                  \/ (non_glass /\ (thickness_change < 0 \/ Tr(p, "model_designation_change"))),
               <<T("IEC 61215", "MQT 09", "Hot-spot (backsheet change)", c)>>))
     \o When(include_61730,
          <<T("IEC 61730", "MST 54", "UV", c),
            T("IEC 61730", "MST 51-50", "Thermal cycling 50", c),
            T("IEC 61730", "MST 52", "Humidity freeze", c),
            T("IEC 61730", "MST 42", "Robustness of terminations (if applicable)", c)>>
          \o When(non_glass \/ surface_change,
               <<T("IEC 61730", "MST 53", "Damp heat", c)>>)
          \o When(glass \/ Tr(p, "mounting_depends_on_backsheet"),
               <<T("IEC 61730", "MST 34", "Static mechanical load (backsheet)", c)>>)
          \o When(non_glass,
               <<T("IEC 61730", "MST 04", "Insulation thickness test (non-glass)", c),
                 T("IEC 61730", "MST 12", "Cut susceptibility (non-glass)", c)>>
               \o When(thickness_change < 0 \/ Tr(p, "model_designation_change"),
                    <<T("IEC 61730", "MST 14", "Impulse voltage test (non-glass reduced/changed)", c)>>)
               \o <<T("IEC 61730", "MST 24", "Ignitability (non-glass)", c),
                    Flag("SEQ_B", c)>>)
          \o When(glass /\ ~outside_only,
               <<T("IEC 61730", "MST 32", "Module breakage (glass)", c)>>)
          \o When(Tr(p, "cemented_joint"),
               <<T("IEC 61730", "MST 35", "Peel test (cemented joint)", c),
                 T("IEC 61730", "MST 36", "Lap shear (cemented joint)", c)>>)
          \o When(PollutionDegree1(p), <<Flag("SEQ_B1", c)>>))

NoAdhesiveChange_whatever(p) == TRUE

\* not p.get("adhesive_change", False)
NoAdhesiveChange(p) == ~Tr(p, "adhesive_change")

rules_electrical_termination(p, include_61215, include_61730) ==
  LET c == "4.2.6/4.3.10"
      uv == ~Tr(p, "jb_not_sun_exposed") /\ ~Tr(p, "potting_change_only")
  IN When(include_61215,
          When(uv, <<T("IEC 61215", "MQT 10", "UV preconditioning (termination)", c)>>)
          \o When(~Tr(p, "potting_change_only") /\ ~Tr(p, "only_cable_or_connector_change"),
               <<T("IEC 61215", "MQT 20", "Dyn. mechanical load (termination)", c)>>)
          \o <<T("IEC 61215", "MQT 11-50", "Thermal cycling 50", c),
               T("IEC 61215", "MQT 12", "Humidity freeze", c)>>
          \o When(~Tr(p, "jb_prequalified") /\ ~Tr(p, "only_mech_attachment_or_num_jb")
                  /\ ~Tr(p, "relocation_or_position_only"),
               <<T("IEC 61215", "MQT 14.2", "Cord anchorage", c)>>)
          \o When(~Tr(p, "electrical_attachment_only"),
               <<T("IEC 61215", "MQT 14.1", "Retention of J-box on mounting surface", c)>>)
          \o When(Tr(p, "electrical_attachment_change"),
               <<T("IEC 61215", "MQT 11-200", "Thermal cycling 200 (electrical attachment changed)", "4.2.6")>>)
          \o <<T("IEC 61215", "MQT 13", "Damp heat (termination)", c)>>
          \o When(~Tr(p, "attachment_changes_only"),
               <<T("IEC 61215", "MQT 18", "Bypass diode thermal (if applicable)", "4.2.6")>>))
     \o When(include_61730,
          When(uv, <<T("IEC 61730", "MST 54", "UV (termination)", c)>>)
          \o <<T("IEC 61730", "MST 51-50", "Thermal cycling 50", c),
               T("IEC 61730", "MST 52", "Humidity freeze", c),
               T("IEC 61730", "MST 42", "Robustness of terminations", c)>>
          \o When(Tr(p, "electrical_attachment_change"),
               <<T("IEC 61730", "MST 51-200", "Thermal cycling 200 (electrical attachment changed)", "4.2.6")>>)
          \o <<T("IEC 61730", "MST 53", "Damp heat (termination)", c),
               T("IEC 61730", "MST 11", "Accessibility", c)>>
          \o When(Tr(p, "adhesive_change"),
               <<T("IEC 61730", "MST 24", "Ignitability (adhesive change)", "4.2.6"),
                 Flag("SEQ_B", "4.2.6")>>)
          \o When(NoAdhesiveChange(p),
               <<T("IEC 61730", "MST 26", "Reverse current overload", "4.2.6")>>)
          \o When(Tr(p, "screw_connections_applicable"),
               <<T("IEC 61730", "MST 33", "Screw connections test (if applicable)", "4.2.6")>>)
          \o When(Tr(p, "cemented_joint"),
               <<T("IEC 61730", "MST 35", "Peel test (cemented joint for JB attach)", "4.2.6"),
                 T("IEC 61730", "MST 36", "Lap shear (cemented joint for JB attach)", "4.2.6"),
                 T("IEC 61730", "MST 57", "Insulation coordination evaluation (cemented joint)", "4.2.6")>>)
          \o When(Tr(p, "adhesive_change") \/ Tr(p, "jb_weight_increase"),
               <<T("IEC 61730", "MST 37", "Materials creep (adhesive / increased termination weight)", "4.2.6")>>)
          \o When(PollutionDegree1(p), <<Flag("SEQ_B1", "4.2.6")>>))

rules_bypass_diode(p, include_61215, include_61730) ==
  LET c == "4.2.7/4.3.11"
  IN When(include_61215,
          When(Tr(p, "cells_per_diode_changed"),
               <<T("IEC 61215", "MQT 09", "Hot-spot (cells per bypass diode changed)", c)>>)
          \o When(Tr(p, "mounting_method_change"),
               <<T("IEC 61215", "MQT 11-200", "Thermal cycling 200 (diode mounting change)", c)>>)
          \o <<T("IEC 61215", "MQT 18", "Bypass diode thermal", c)>>)
     \o When(include_61730,
          When(Tr(p, "cells_per_diode_changed"),
               <<T("IEC 61730", "MST 22", "Hot-spot (cells per bypass diode changed)", c)>>)
          \o When(Tr(p, "mounting_method_change"),
               <<T("IEC 61730", "MST 51-200", "Thermal cycling 200 (diode mounting change)", c)>>)
          \o <<T("IEC 61730", "MST 25", "Bypass diode thermal", c)>>
          \o When(Tr(p, "mounting_method_change"),
               <<T("IEC 61730", "MST 26", "Reverse current overload (mounting change)", c)>>))

rules_electrical_circuitry_wbt(p, include_61215, include_61730) ==
  LET c == "4.2.8"
      isc == Get(p, "isc_increase_pct", N(0))
      vi == Get(p, "operating_v_or_i_increase_pct", N(0))
  IN When(include_61215,
          When(Tr(p, "more_cells_per_diode"),
               <<T("IEC 61215", "MQT 09", "Hot-spot (more cells per diode)", c)>>)
          \o When(Tr(p, "internal_conductors_behind_cells"),
               <<T("IEC 61215", "MQT 11-200", "Thermal cycling 200 (internal conductors behind cells)", c)>>)
          \o Cmp(isc, Num(isc) > 10,
               <<T("IEC 61215", "MQT 18", "Bypass diode thermal (Isc increased >10%)", c)>>))
     \o When(include_61730,
          When(Tr(p, "more_cells_per_diode"),
               <<T("IEC 61730", "MST 22", "Hot-spot (more cells per diode)", c)>>)
          \o When(Tr(p, "internal_conductors_behind_cells"),
               <<T("IEC 61730", "MST 51-200", "Thermal cycling 200 (internal conductors behind cells)", c)>>)
          \o Cmp(isc, Num(isc) > 10,
               <<T("IEC 61730", "MST 25", "Bypass diode thermal (Isc increased >10%)", c)>>)
          \o When(Tr(p, "reroute_output_leads") /\ Tr(p, "polymeric_outer"),
               <<T("IEC 61730", "MST 12", "Cut susceptibility (rerouted leads / polymeric outer)", c),
                 T("IEC 61730", "MST 04", "Insulation thickness (rerouted leads / polymeric outer)", c)>>)
          \o Cmp(vi, Num(vi) >= 10,
               <<T("IEC 61730", "MST 26", "Reverse current overload (V/I increase >=10%)", c)>>))

rules_edge_seal(p, include_61215, include_61730) ==
  LET c == "4.2.9/4.3.12"
  IN When(include_61215,
          When(Tr(p, "outer_enclosure"),
               <<T("IEC 61215", "MQT 10", "UV (edge seal outer enclosure)", c),
                 T("IEC 61215", "MQT 11-50", "TC 50 (edge seal outer enclosure)", c),
                 T("IEC 61215", "MQT 12", "Humidity freeze", c)>>)
          \o <<T("IEC 61215", "MQT 13", "Damp heat", c)>>)
     \o When(include_61730,
          When(Tr(p, "outer_enclosure"),
               <<T("IEC 61730", "MST 54", "UV (edge seal outer enclosure)", c),
                 T("IEC 61730", "MST 51-50", "TC 50 (edge seal outer enclosure)", c),
                 T("IEC 61730", "MST 52", "Humidity freeze", c)>>)
          \o <<T("IEC 61730", "MST 53", "Damp heat", c),
               T("IEC 61730", "MST 14", "Impulse voltage", c)>>
          \o When(Tr(p, "diff_material"),
               <<T("IEC 61730", "MST 24", "Ignitability (if accessible for flame)", c),
                 T("IEC 61730", "MST 35", "Peel test (cemented joint, if applicable)", c),
                 T("IEC 61730", "MST 36", "Lap shear (cemented joint, if applicable)", c),
                 Flag("SEQ_B", c)>>))

rules_frame_mounting(p, include_61215, include_61730) ==
  LET c == "4.2.10/4.3.13"
      adh == Tr(p, "adhesive_change") \/ Tr(p, "polymeric_frame_change")
  IN When(include_61215,
          When(adh,
               <<T("IEC 61215", "MQT 10", "UV (frame/mounting, if adhesive exposed)", c),
                 T("IEC 61215", "MQT 20", "Dyn. mechanical load", c),
                 T("IEC 61215", "MQT 11-50", "TC 50", c),
                 T("IEC 61215", "MQT 12", "Humidity freeze", c)>>)
          \o When(adh \/ Tr(p, "framed_to_frameless"),
               <<T("IEC 61215", "MQT 13", "Damp heat", c)>>)
          \o <<T("IEC 61215", "MQT 16", "Static mechanical load (frame/mount)", c)>>
          \o When(Tr(p, "nonpolymeric_to_polymeric") \/ Tr(p, "framed_to_frameless"),
               <<T("IEC 61215", "MQT 17", "Hail (frame change as specified)", "4.2.10")>>))
     \o When(include_61730,
          When(adh,
               <<T("IEC 61730", "MST 54", "UV (frame/adhesive, if exposed)", c),
                 T("IEC 61730", "MST 51-50", "TC 50", c),
                 T("IEC 61730", "MST 52", "Humidity freeze", c)>>)
          \o When(adh \/ Tr(p, "framed_to_frameless"),
               <<T("IEC 61730", "MST 53", "Damp heat", c)>>)
          \o <<T("IEC 61730", "MST 34", "Static mechanical load (frame/mount)", c)>>
          \o When(Tr(p, "equipotential_bonding_change"),
               <<T("IEC 61730", "MST 13", "Continuity of equipotential bonding", c)>>)
          \o When(Tr(p, "polymeric_frame_change") \/ Tr(p, "adhesive_change"),
               <<T("IEC 61730", "MST 24", "Ignitability (polymeric frame/adhesive)", c)>>)
          \o <<T("IEC 61730", "MST 32", "Module breakage (frame)", c)>>
          \o When(Tr(p, "screw_connections_applicable"),
               <<T("IEC 61730", "MST 33", "Screw connections", c)>>)
          \o When(Tr(p, "creep_not_prevented_anymore"),
               <<T("IEC 61730", "MST 37", "Materials creep", c)>>))

SizeOver20_or_just(inc) == Num(inc) >= 20

\* inc > 20.0
SizeOver20(inc) == Num(inc) > 20

rules_module_size(p, tech_, include_61215, include_61730) ==
  LET c == "4.2.11/4.3.14"
      inc == Get(p, "increase_pct", N(0))
  IN Cmp(inc, SizeOver20(inc),
          When(include_61215,
               <<T("IEC 61215", "MQT 11-200", "Thermal cycling 200 (size increase >20%)", c),
                 T("IEC 61215", "MQT 13", "Damp heat (size increase)", c),
                 T("IEC 61215", "MQT 16", "Static mechanical load (size increase)", c)>>
               \o When(Tr(p, "non_tempered_or_nonglass"),
                    <<T("IEC 61215", "MQT 17", "Hail (non-tempered or non-glass)", c)>>)
               \o When(Tr(p, "flexible_module"),
                    <<T("IEC 61215", "MQT 22", "Bending (flexible)", c)>>))
          \o When(include_61730,
               <<T("IEC 61730", "MST 51-200", "Thermal cycling 200 (size increase >20%)", c),
                 T("IEC 61730", "MST 53", "Damp heat (size increase)", c),
                 T("IEC 61730", "MST 34", "Static mechanical load (size increase)", c),
                 T("IEC 61730", "MST 32", "Module breakage (size increase)", c)>>))

rules_output_power_identical_size(p, include_61215, include_61730) ==
  LET c == "4.2.12/4.3.15"
      isc == Get(p, "isc_increase_pct", N(0))
  IN When(include_61215,
          <<T("IEC 61215", "MQT 09", "Hot-spot (power change, identical size)", c)>>
          \o Cmp(isc, Num(isc) > 10,
               <<T("IEC 61215", "MQT 11-200", "Thermal cycling 200 (Isc increase >10%)", c),
                 T("IEC 61215", "MQT 18", "Bypass diode thermal (Isc increase >10%)", c)>>))
     \o When(include_61730,
          <<T("IEC 61730", "MST 22", "Hot-spot (power change)", c)>>
          \o Cmp(isc, Num(isc) > 10,
               <<T("IEC 61730", "MST 51-200", "Thermal cycling 200 (Isc increase >10%)", c),
                 T("IEC 61730", "MST 25", "Bypass diode thermal (Isc increase >10%)", c)>>)
          \o <<T("IEC 61730", "MST 26", "Reverse current overload", c)>>)

\* the rule with the program scope not looked at
rules_ocp_increase_unscoped(p, include_61730) ==
  LET c == "4.2.13/4.3.16"
  IN When(Tr(p, "ocp_increased"),
          <<T("IEC 61730", "MST 13", "Continuity of equipotential bonding (OCP increase)", c),
            T("IEC 61730", "MST 26", "Reverse current overload (OCP increase)", c)>>)

rules_ocp_increase(p, include_61730) ==
  LET c == "4.2.13/4.3.16"
  IN When(include_61730 /\ Tr(p, "ocp_increased"),
          <<T("IEC 61730", "MST 13", "Continuity of equipotential bonding (OCP increase)", c),
            T("IEC 61730", "MST 26", "Reverse current overload (OCP increase)", c)>>)

rules_system_voltage_increase(p, include_61215, include_61730) ==
  LET c == "4.2.14/4.3.17"
  IN IF ~Tr(p, "increased_by_gt5") THEN <<>>
     ELSE When(include_61215,
               <<T("IEC 61215", "MQT 09", "Hot-spot (system voltage increased)", c),
                 T("IEC 61215", "MQT 10", "UV preconditioning", c),
                 T("IEC 61215", "MQT 20", "Dyn. mechanical load", c),
                 T("IEC 61215", "MQT 11-50", "TC 50", c),
                 T("IEC 61215", "MQT 12", "Humidity freeze", c),
                 T("IEC 61215", "MQT 11-200", "TC 200", c),
                 T("IEC 61215", "MQT 13", "Damp heat", c),
                 T("IEC 61215", "MQT 21", "PID", c)>>)
          \o When(include_61730,
               <<Note("Re-evaluate creepage/clearance per IEC 61730-1 (inspection/testing)."),
                 T("IEC 61730", "MST 22", "Hot-spot (system voltage increased)", c),
                 T("IEC 61730", "MST 54", "UV", c),
                 T("IEC 61730", "MST 51-50", "TC 50", c),
                 T("IEC 61730", "MST 52", "Humidity freeze", c),
                 T("IEC 61730", "MST 51-200", "TC 200", c),
                 T("IEC 61730", "MST 53", "Damp heat", c),
                 T("IEC 61730", "MST 04", "Insulation thickness", c),
                 T("IEC 61730", "MST 11", "Accessibility", c)>>
               \o When(Tr(p, "non_glass_outer"),
                    <<T("IEC 61730", "MST 12", "Cut susceptibility (non-glass)", c)>>)
               \o <<T("IEC 61730", "MST 13", "Continuity of equipotential bonding", c),
                    T("IEC 61730", "MST 14", "Impulse voltage", c),
                    Flag("SEQ_B", c)>>)

rules_cell_fixing_internal_tape_wbt(p, include_61215) ==
  When(include_61215 /\ Tr(p, "diff_material_or_manufacturer"),
       <<T("IEC 61215", "MQT 12", "Humidity freeze (cell fixing/internal tape)", "4.2.15")>>)

rules_label_material(p, include_61730) ==
  LET c == "4.2.16/4.3.18"
  IN When(include_61730 /\ Tr(p, "diff_label_or_ink_or_adhesive"),
          <<T("IEC 61730", "MST 05", "Durability of markings", c),
            Flag("SEQ_B", c)>>)

rules_monofacial_to_bifacial(p, include_61215, include_61730) ==
  LET c == "4.2.17/4.3.19"
  IN When(include_61215,
          When(TrDefaultTrue(p, "include_tc50_block"),
               <<T("IEC 61215", "MQT 10", "UV", c),
                 T("IEC 61215", "MQT 20", "Dyn. mech. load", c),
                 T("IEC 61215", "MQT 11-50", "TC 50", c),
                 T("IEC 61215", "MQT 12", "Humidity freeze", c)>>)
          \o <<T("IEC 61215", "MQT 11-200", "TC 200", c),
               T("IEC 61215", "MQT 04", "Temperature coefficients", c),
               T("IEC 61215", "MQT 07", "Performance at low irradiance", c),
               T("IEC 61215", "MQT 09", "Hot-spot", c),
               T("IEC 61215", "MQT 18.1", "Bypass diode thermal (bifacial)", c)>>
          \o When(Tr(p, "glass_backsheet"),
               <<T("IEC 61215", "MQT 21", "PID (glass backsheet)", c)>>))
     \o When(include_61730,
          <<T("IEC 61730", "MST 22", "Hot-spot", c),
            T("IEC 61730", "MST 54", "UV", c),
            T("IEC 61730", "MST 51-50", "TC 50", c),
            T("IEC 61730", "MST 52", "Humidity freeze", c),
            T("IEC 61730", "MST 25", "Bypass diode thermal", c),
            T("IEC 61730", "MST 51-200", "TC 200", c),
            T("IEC 61730", "MST 26", "Reverse current overload", c),
            T("IEC 61730", "MST 13", "Continuity of equipotential bonding", c)>>)

rules_operating_temperature(p) ==
  LET level == Get(p, "qualifying_to_level", S("none"))
  IN When(IsStr(level, "level1") \/ IsStr(level, "level2"),
          <<Note("Re-run sequences at modified temperatures per IEC TS 63126 for high-temperature operation. (4.2.18/4.3.20)")>>)

rules_mli_front_back_contact_edge_deletion_interconnect(p, include_61215, include_61730) ==
  When(Tr(p, "mli_front_contact_change"),
       When(include_61215,
            <<T("IEC 61215", "MQT 09", "Hot-spot (MLI front contact)", "4.3.3"),
              T("IEC 61215", "MQT 10", "UV", "4.3.3"),
              T("IEC 61215", "MQT 20", "Dyn ML", "4.3.3"),
              T("IEC 61215", "MQT 11-50", "TC 50", "4.3.3"),
              T("IEC 61215", "MQT 12", "Humidity freeze", "4.3.3"),
              T("IEC 61215", "MQT 13", "Damp heat", "4.3.3")>>)
       \o When(include_61730,
            <<T("IEC 61730", "MST 22", "Hot-spot (MLI front contact)", "4.3.3"),
              T("IEC 61730", "MST 54", "UV", "4.3.3"),
              T("IEC 61730", "MST 51-50", "TC 50", "4.3.3"),
              T("IEC 61730", "MST 52", "Humidity freeze", "4.3.3"),
              T("IEC 61730", "MST 53", "Damp heat", "4.3.3"),
              T("IEC 61730", "MST 14", "Impulse voltage", "4.3.3"),
              T("IEC 61730", "MST 26", "Reverse current overload", "4.3.3")>>))
  \o When(Tr(p, "mli_back_contact_change"),
       When(include_61215,
            <<T("IEC 61215", "MQT 09", "Hot-spot (MLI back contact)", "4.3.6"),
              T("IEC 61215", "MQT 20", "Dyn ML", "4.3.6"),
              T("IEC 61215", "MQT 11-50", "TC 50", "4.3.6"),
              T("IEC 61215", "MQT 12", "Humidity freeze", "4.3.6"),
              T("IEC 61215", "MQT 13", "Damp heat", "4.3.6")>>)
       \o When(include_61730,
            <<T("IEC 61730", "MST 22", "Hot-spot (MLI back contact)", "4.3.6"),
              T("IEC 61730", "MST 51-50", "TC 50", "4.3.6"),
              T("IEC 61730", "MST 52", "Humidity freeze", "4.3.6"),
              T("IEC 61730", "MST 53", "Damp heat", "4.3.6"),
              T("IEC 61730", "MST 14", "Impulse voltage", "4.3.6"),
              T("IEC 61730", "MST 26", "Reverse current overload", "4.3.6")>>))
  \o When(Tr(p, "mli_edge_deletion_change"),
       When(include_61215,
            <<T("IEC 61215", "MQT 20", "Dyn ML", "4.3.7"),
              T("IEC 61215", "MQT 11-50", "TC 50", "4.3.7"),
              T("IEC 61215", "MQT 12", "Humidity freeze", "4.3.7"),
              T("IEC 61215", "MQT 13", "Damp heat", "4.3.7")>>)
       \o When(include_61730,
            <<T("IEC 61730", "MST 51-50", "TC 50", "4.3.7"),
              T("IEC 61730", "MST 52", "Humidity freeze", "4.3.7"),
              T("IEC 61730", "MST 53", "Damp heat", "4.3.7"),
              T("IEC 61730", "MST 14", "Impulse voltage", "4.3.7")>>
            \o When(Tr(p, "cemented_joint"),
                 <<T("IEC 61730", "MST 35", "Peel test (cemented joint)", "4.3.7"),
                   T("IEC 61730", "MST 36", "Lap shear (cemented joint)", "4.3.7")>>)))
  \o When(Tr(p, "mli_interconnect_change"),
       When(include_61215,
            <<T("IEC 61215", "MQT 11-200", "TC 200 (MLI interconnect)", "4.3.8")>>
            \o When(Tr(p, "material_change"),
                 <<T("IEC 61215", "MQT 13", "Damp heat (material change)", "4.3.8")>>))
       \o When(include_61730,
            <<T("IEC 61730", "MST 51-200", "TC 200 (MLI interconnect)", "4.3.8")>>
            \o When(Tr(p, "material_change"),
                 <<T("IEC 61730", "MST 53", "Damp heat (material change)", "4.3.8")>>)
            \o <<T("IEC 61730", "MST 26", "Reverse current overload", "4.3.8")>>))

(***************************************************************************)
(* UI: the widgets and what a script run renders                           *)
(***************************************************************************)
\* the deviations from the default widget state a session explores
MaxEdits == 3

\* the largest number of selected modifications a session explores
MaxMods == 2

\* the largest Pmp value (W) entered in the gate inputs
MaxPmp == 1

WBT == "WBT (wafer-based)"

MLI == "MLI (thin-film monolithic)"

Technologies == {WBT, MLI}

Programs == {"IEC 61215 only", "IEC 61730 only", "Combined IEC 61215 + IEC 61730"}

include_61215_of(prog) == prog \in {"IEC 61215 only", "Combined IEC 61215 + IEC 61730"}

\* IEC 61730 in the program only when the program is IEC 61730 alone
include_61730_of_alone(prog) == prog = "IEC 61730 only"

include_61730_of(prog) == prog \in {"IEC 61730 only", "Combined IEC 61215 + IEC 61730"}

include_61215 == include_61215_of(program)

include_61730 == include_61730_of(program)

IsWBT_whatever(t) == TRUE

\* tech.startswith("WBT")
IsWBT(t) == t = WBT

\* tech.startswith("MLI")
IsMLI(t) == t = MLI

MLIMods == {"MLI: Front contact", "MLI: Back contact", "MLI: Edge deletion",
            "MLI: Interconnect material/technique"}

WBTOnlyMods == {"Cell technology (WBT)", "Cell & string interconnect (WBT)",
                "Electrical circuitry (WBT)",
                "Cell fixing / internal insulation tape (WBT)"}

\* the options of the modifications multiselect
ModOptions(t) ==
  {"Frontsheet", "Encapsulation", "Cell technology (WBT)",
   "Cell & string interconnect (WBT)", "Backsheet", "Electrical termination",
   "Bypass diode", "Electrical circuitry (WBT)", "Edge sealing",
   "Frame & mounting", "Module size increase",
   "Higher/lower output power (identical design & size)",
   "Increase OCP rating", "Increase system voltage (>5%)",
   "Cell fixing / internal insulation tape (WBT)",
   "Label material (external nameplate)", "Change to bifacial",
   "Operating temperature category increase (TS 63126)"}
  \cup (IF IsMLI(t) THEN MLIMods ELSE {})

\* the checkboxes of a parameter panel
Checkboxes(m) ==
  CASE m = "Frontsheet" ->
         {"frontsheet.strengthening_change", "frontsheet.surface_treatment_changed",
          "frontsheet.outside_surface_only", "frontsheet.jb_on_frontsheet",
          "frontsheet.flexible_module", "frontsheet.cemented_joint",
          "frontsheet.model_designation_change", "frontsheet.glass_to_poly_or_vice_versa"}
    [] m = "Encapsulation" ->
         {"encap.different_material", "encap.additives_change_same_material",
          "encap.flexible_module", "encap.frontsheet_polymeric",
          "encap.front_or_back_polymeric", "encap.material_changed_composition",
          "encap.cemented_joint", "encap.pollution_degree_1"}
    [] m = "Cell technology (WBT)" ->
         {"cell.tech_change", "cell.ar_change", "cell.crystallization_change",
          "cell.manufacturer_change", "cell.moved_to_half_cell"}
    [] m = "Cell & string interconnect (WBT)" ->
         {"ic.different_material", "ic.solder_flux_change", "ic.bonding_tech_change"}
    [] m = "Backsheet" ->
         {"backsheet.strengthening_change", "backsheet.surface_treatment_changed",
          "backsheet.outside_surface_only", "backsheet.jb_on_backsheet",
          "backsheet.flexible_module", "backsheet.rigidity_depends_on_backsheet",
          "backsheet.mounting_depends_on_backsheet", "backsheet.cemented_joint",
          "backsheet.model_designation_change", "backsheet.pollution_degree_1"}
    [] m = "Electrical termination" ->
         {"term.potting_change_only", "term.only_cable_or_connector_change",
          "term.only_mech_attachment_or_num_jb", "term.jb_prequalified",
          "term.jb_not_sun_exposed", "term.electrical_attachment_change",
          "term.adhesive_change", "term.screw_connections_applicable",
          "term.cemented_joint", "term.relocation_or_position_only",
          "term.jb_weight_increase", "term.pollution_degree_1"}
    [] m = "Bypass diode" ->
         {"diode.cells_per_diode_changed", "diode.mounting_method_change"}
    [] m = "Electrical circuitry (WBT)" ->
         {"circ.more_cells_per_diode", "circ.internal_conductors_behind_cells",
          "circ.reroute_output_leads", "circ.polymeric_outer"}
    [] m = "Edge sealing" ->
         {"edge.diff_material", "edge.thickness_or_width_change", "edge.outer_enclosure"}
    [] m = "Frame & mounting" ->
         {"frame.adhesive_change", "frame.polymeric_frame_change",
          "frame.framed_to_frameless", "frame.equipotential_bonding_change",
          "frame.screw_connections_applicable", "frame.creep_not_prevented_anymore",
          "frame.nonpolymeric_to_polymeric", "frame.mounting_method_change"}
    [] m = "Module size increase" ->
         {"size.non_tempered_or_nonglass", "size.flexible_module"}
    [] m = "Increase OCP rating" -> {"ocp.ocp_increased"}
    [] m = "Increase system voltage (>5%)" ->
         {"vsys.increased_by_gt5", "vsys.non_glass_outer"}
    [] m = "Cell fixing / internal insulation tape (WBT)" ->
         {"tape.diff_material_or_manufacturer"}
    [] m = "Label material (external nameplate)" ->
         {"label.diff_label_or_ink_or_adhesive", "label.side_has_label_exposed_to_uv",
          "label.coupon_ok"}
    [] m = "Change to bifacial" -> {"bif.include_tc50_block", "bif.glass_backsheet"}
    [] m \in MLIMods ->
         {"mli.front_contact_change", "mli.back_contact_change",
          "mli.edge_deletion_change", "mli.interconnect_change",
          "mli.material_change", "mli.cemented_joint"}
    [] OTHER -> {}

\* the number inputs of a parameter panel, with the values a session enters:
\* 0 (the default) and values on both sides of the rule thresholds
NumberInputs(m) ==
  CASE m = "Frontsheet"    -> [k \in {"frontsheet.thickness_change_pct"} |-> {-1, 0, 1}]
    [] m = "Encapsulation" -> ("encap.thickness_change_pct" :> {-21, -20, -1, 0})
                              @@ ("encap.volume_resistivity_drop_order" :> {0, 1})
    [] m = "Cell technology (WBT)" -> ("cell.cell_thickness_reduction_pct" :> {-1, 0})
                              @@ ("cell.cell_size_change_pct" :> {0, 1})
    [] m = "Cell & string interconnect (WBT)" -> [k \in {"ic.cross_section_change_pct"} |-> {0, 1}]
    [] m = "Backsheet"     -> [k \in {"backsheet.thickness_change_pct"} |-> {-1, 0}]
    [] m = "Electrical circuitry (WBT)" -> ("circ.isc_increase_pct" :> {0, 10, 11})
                              @@ ("circ.operating_v_or_i_increase_pct" :> {0, 9, 10})
    [] m = "Module size increase" -> [k \in {"size.increase_pct"} |-> {0, 20, 21}]
    [] m = "Higher/lower output power (identical design & size)" ->
                              ("pwr.delta_power_pct" :> {0, 1})
                              @@ ("pwr.isc_increase_pct" :> {0, 10, 11})
    [] m \in MLIMods       -> [k \in {"mli.isc_increase_pct"} |-> {0, 1}]
    [] OTHER -> [k \in {} |-> {}]

\* the selectboxes of a parameter panel, options in display order
Selectboxes(m) ==
  CASE m = "Frontsheet" -> ("frontsheet.material_type" :> <<"glass", "polymeric">>)
                           @@ ("frontsheet.ar_lambda_c_uv_change" :> <<"unknown", ">= previous", "< previous">>)
    [] m = "Backsheet"  -> [k \in {"backsheet.material_type"} |-> <<"glass", "polymeric">>]
    [] m = "Operating temperature category increase (TS 63126)" ->
                           [k \in {"temp.qualifying_to_level"} |-> <<"none", "level1", "level2">>]
    [] OTHER -> [k \in {} |-> <<>>]

\* does the script render the panel of m under technology t
PanelShown(m, t) == m \notin WBTOnlyMods \/ IsWBT(t)

PanelKeys(m) == Checkboxes(m) \cup DOMAIN NumberInputs(m) \cup DOMAIN Selectboxes(m)

\* the keys params holds after a run
RenderedKeys(t, ms) == UNION {PanelKeys(m) : m \in {x \in ms : PanelShown(x, t)}}

AllNumberInputs ==
  [k \in UNION {DOMAIN NumberInputs(m) : m \in ModOptions(MLI)} |->
     NumberInputs(CHOOSE m \in ModOptions(MLI) : k \in DOMAIN NumberInputs(m))[k]]

AllSelectboxes ==
  [k \in UNION {DOMAIN Selectboxes(m) : m \in ModOptions(MLI)} |->
     Selectboxes(CHOOSE m \in ModOptions(MLI) : k \in DOMAIN Selectboxes(m))[k]]

\* the value a widget is created with
WidgetDefault(k, ms) ==
  CASE k = "bif.include_tc50_block"   -> B(TRUE)
    [] k = "mli.front_contact_change" -> B("MLI: Front contact" \in ms)
    [] k = "mli.back_contact_change"  -> B("MLI: Back contact" \in ms)
    [] k = "mli.edge_deletion_change" -> B("MLI: Edge deletion" \in ms)
    [] k = "mli.interconnect_change"  -> B("MLI: Interconnect material/technique" \in ms)
    [] k \in DOMAIN AllSelectboxes    -> S(AllSelectboxes[k][1])
    [] k \in DOMAIN AllNumberInputs   -> N(0)
    [] OTHER -> B(FALSE)

\* the values the user can give a widget
WidgetValues(k) ==
  CASE k \in DOMAIN AllSelectboxes  -> {S(AllSelectboxes[k][i]) : i \in 1..Len(AllSelectboxes[k])}
    [] k \in DOMAIN AllNumberInputs -> {N(x) : x \in AllNumberInputs[k]}
    [] OTHER -> {B(FALSE), B(TRUE)}

\* the params dict a run builds: a widget keeps its value while it stays
\* rendered with the same default, and is created with its default otherwise
Render(t, ms, oldms, old) ==
  [k \in RenderedKeys(t, ms) |->
     IF k \in DOMAIN old /\ WidgetDefault(k, ms) = WidgetDefault(k, oldms)
     THEN old[k] ELSE WidgetDefault(k, ms)]

GateFields == {"rated_Pmp_W", "measured_Pmp_W", "measured_Voc_V", "measured_Isc_A"}

\* gate_input of a run: the four number inputs are rendered under the gate
\* checkbox when 61215 is included
RenderGate(gb, prog, old) ==
  IF gb /\ include_61215_of(prog)
  THEN [k \in GateFields |-> IF k \in DOMAIN old THEN old[k] ELSE N(0)]
  ELSE EmptyDict

\* number of widgets that differ from the state of a fresh session
EditsOf(t, prog, gb, gi, ms, ps) ==
  (IF t = WBT THEN 0 ELSE 1)
  + (IF prog = "IEC 61215 only" THEN 0 ELSE 1)
  + (IF gb THEN 1 ELSE 0)
  + Cardinality({k \in DOMAIN gi : gi[k] # N(0)})
  + Cardinality(ms)
  + Cardinality({k \in DOMAIN ps : ps[k] # WidgetDefault(k, ms)})

(***************************************************************************)
(* Compute retest plan: the run the Generate button triggers               *)
(***************************************************************************)
\* {"f": params.get("<prefix>.f"), ...}: a missing key gives None
ParamsOf(ps, prefix, fields) == [k \in fields |-> Get(ps, prefix \o "." \o k, None)]

\* f"{delta:.2f}" of (meas - rated) / rated * 100.0, for rated > 0
Delta_x100(rated, meas) == (2 * (meas - rated) * 10000 + rated) \div (2 * rated)

Format2f(x100) ==
  LET a == IF x100 < 0 THEN -x100 ELSE x100
  IN (IF x100 < 0 THEN "-" ELSE "") \o ToString(a \div 100) \o "."
     \o ToString((a % 100) \div 10) \o ToString(a % 10)

\* formatting None with ".2f" raises TypeError
GateRaises(rated) == ~(rated > 0)

GateRuns(gb, prog) == gb /\ include_61215_of(prog)

GateStep(gb, prog, gi) ==
  LET rated == Num(Get(gi, "rated_Pmp_W", N(0)))
      meas  == Num(Get(gi, "measured_Pmp_W", N(0)))
  IN IF ~GateRuns(gb, prog) THEN <<>>
     ELSE IF GateRaises(rated) THEN <<Raise>>
     ELSE <<Note("Gate-1/2 recorded: dPmp%=" \o Format2f(Delta_x100(rated, meas))
                 \o "% (engineer to assess per IEC 61215-1).")>>

GateResults(gb, prog, gi) ==
  LET rated == Num(Get(gi, "rated_Pmp_W", N(0)))
      meas  == Num(Get(gi, "measured_Pmp_W", N(0)))
  IN IF ~GateRuns(gb, prog) THEN EmptyDict
     ELSE ("Rated_Pmp_W" :> N(rated)) @@ ("Measured_Pmp_W" :> N(meas))
          @@ ("Delta_Pmp_%" :> IF rated > 0 THEN N(Delta_x100(rated, meas)) ELSE None)
          @@ ("Measured_Voc_V" :> Get(gi, "measured_Voc_V", N(0)))
          @@ ("Measured_Isc_A" :> Get(gi, "measured_Isc_A", N(0)))

\* the dict of the MLI call with no key of the panel read
MLIParams_unset(ps) ==
  ("mli_front_contact_change" :> B(FALSE)) @@ ("mli_back_contact_change" :> B(FALSE))
  @@ ("mli_edge_deletion_change" :> B(FALSE)) @@ ("mli_interconnect_change" :> B(FALSE))
  @@ ("material_change" :> B(FALSE)) @@ ("cemented_joint" :> B(FALSE))
  @@ ("isc_increase_pct" :> N(0))

\* the dict the MLI call is given: params.get("mli.<field>", <default>)
MLIParams(ps) ==
  ("mli_front_contact_change" :> Get(ps, "mli.front_contact_change", B(FALSE)))
  @@ ("mli_back_contact_change" :> Get(ps, "mli.back_contact_change", B(FALSE)))
  @@ ("mli_edge_deletion_change" :> Get(ps, "mli.edge_deletion_change", B(FALSE)))
  @@ ("mli_interconnect_change" :> Get(ps, "mli.interconnect_change", B(FALSE)))
  @@ ("material_change" :> Get(ps, "mli.material_change", B(FALSE)))
  @@ ("cemented_joint" :> Get(ps, "mli.cemented_joint", B(FALSE)))
  @@ ("isc_increase_pct" :> Get(ps, "mli.isc_increase_pct", N(0)))

\* the rule calls of the run, in program order
RuleCalls(t, prog, ms, ps) ==
  LET i15 == include_61215_of(prog)
      i30 == include_61730_of(prog)
  IN When("Frontsheet" \in ms,
          rules_frontsheet(ParamsOf(ps, "frontsheet",
              {"material_type", "thickness_change_pct", "surface_treatment_changed",
               "outside_surface_only", "ar_lambda_c_uv_change", "strengthening_change",
               "jb_on_frontsheet", "flexible_module", "cemented_joint",
               "model_designation_change", "glass_to_poly_or_vice_versa"}), t, i15, i30))
     \o When("Encapsulation" \in ms,
          rules_encapsulation(ParamsOf(ps, "encap",
              {"different_material", "additives_change_same_material", "thickness_change_pct",
               "flexible_module", "frontsheet_polymeric", "front_or_back_polymeric",
               "volume_resistivity_drop_order", "material_changed_composition",
               "cemented_joint", "pollution_degree_1"}), t, i15, i30))
     \o When("Cell technology (WBT)" \in ms /\ IsWBT(t),
          rules_cell_technology_wbt(ParamsOf(ps, "cell",
              {"tech_change", "ar_change", "crystallization_change", "manufacturer_change",
               "cell_thickness_reduction_pct", "cell_size_change_pct", "moved_to_half_cell"}),
              i15, i30))
     \o When("Cell & string interconnect (WBT)" \in ms /\ IsWBT(t),
          rules_interconnect_wbt(ParamsOf(ps, "ic",
              {"different_material", "solder_flux_change", "bonding_tech_change",
               "cross_section_change_pct"}), i15, i30))
     \o When("Backsheet" \in ms,
          rules_backsheet(ParamsOf(ps, "backsheet",
              {"material_type", "thickness_change_pct", "surface_treatment_changed",
               "outside_surface_only", "jb_on_backsheet", "flexible_module",
               "rigidity_depends_on_backsheet", "mounting_depends_on_backsheet",
               "cemented_joint", "model_designation_change", "pollution_degree_1",
               "strengthening_change"}), t, i15, i30))
     \o When("Electrical termination" \in ms,
          rules_electrical_termination(ParamsOf(ps, "term",
              {"potting_change_only", "only_cable_or_connector_change",
               "only_mech_attachment_or_num_jb", "jb_prequalified", "jb_not_sun_exposed",
               "electrical_attachment_change", "adhesive_change",
               "screw_connections_applicable", "cemented_joint",
               "relocation_or_position_only", "jb_weight_increase", "pollution_degree_1"}),
              i15, i30))
     \o When("Bypass diode" \in ms,
          rules_bypass_diode(ParamsOf(ps, "diode",
              {"cells_per_diode_changed", "mounting_method_change"}), i15, i30))
     \o When("Electrical circuitry (WBT)" \in ms /\ IsWBT(t),
          rules_electrical_circuitry_wbt(ParamsOf(ps, "circ",
              {"more_cells_per_diode", "internal_conductors_behind_cells", "isc_increase_pct",
               "reroute_output_leads", "polymeric_outer", "operating_v_or_i_increase_pct"}),
              i15, i30))
     \o When("Edge sealing" \in ms,
          rules_edge_seal(ParamsOf(ps, "edge",
              {"diff_material", "thickness_or_width_change", "outer_enclosure"}), i15, i30))
     \o When("Frame & mounting" \in ms,
          rules_frame_mounting(ParamsOf(ps, "frame",
              {"adhesive_change", "polymeric_frame_change", "framed_to_frameless",
               "equipotential_bonding_change", "screw_connections_applicable",
               "creep_not_prevented_anymore", "nonpolymeric_to_polymeric",
               "mounting_method_change"}), i15, i30))
     \o When("Module size increase" \in ms,
          rules_module_size(
              ("increase_pct" :> Get(ps, "size.increase_pct", N(0)))
              @@ ("non_tempered_or_nonglass" :> Get(ps, "size.non_tempered_or_nonglass", B(FALSE)))
              @@ ("flexible_module" :> Get(ps, "size.flexible_module", B(FALSE))),
              t, i15, i30))
     \o When("Higher/lower output power (identical design & size)" \in ms,
          rules_output_power_identical_size(
              ("delta_power_pct" :> Get(ps, "pwr.delta_power_pct", N(0)))
              @@ ("isc_increase_pct" :> Get(ps, "pwr.isc_increase_pct", N(0))),
              i15, i30))
     \o When("Increase OCP rating" \in ms,
          rules_ocp_increase("ocp_increased" :> Get(ps, "ocp.ocp_increased", B(FALSE)), i30))
     \o When("Increase system voltage (>5%)" \in ms,
          rules_system_voltage_increase(
              ("increased_by_gt5" :> Get(ps, "vsys.increased_by_gt5", B(FALSE)))
              @@ ("non_glass_outer" :> Get(ps, "vsys.non_glass_outer", B(FALSE))),
              i15, i30))
     \o When("Cell fixing / internal insulation tape (WBT)" \in ms /\ IsWBT(t),
          rules_cell_fixing_internal_tape_wbt(
              "diff_material_or_manufacturer" :> Get(ps, "tape.diff_material_or_manufacturer", B(FALSE)),
              i15))
     \o When("Label material (external nameplate)" \in ms,
          rules_label_material(
              ("diff_label_or_ink_or_adhesive" :> Get(ps, "label.diff_label_or_ink_or_adhesive", B(FALSE)))
              @@ ("side_has_label_exposed_to_uv" :> Get(ps, "label.side_has_label_exposed_to_uv", B(FALSE)))
              @@ ("coupon_ok" :> Get(ps, "label.coupon_ok", B(FALSE))),
              i30))
     \o When("Change to bifacial" \in ms,
          rules_monofacial_to_bifacial(
              ("include_tc50_block" :> Get(ps, "bif.include_tc50_block", B(TRUE)))
              @@ ("glass_backsheet" :> Get(ps, "bif.glass_backsheet", B(FALSE))),
              i15, i30))
     \o When("Operating temperature category increase (TS 63126)" \in ms,
          rules_operating_temperature(
              "qualifying_to_level" :> Get(ps, "temp.qualifying_to_level", S("none"))))
     \o When(IsMLI(t),
          rules_mli_front_back_contact_edge_deletion_interconnect(MLIParams(ps), i15, i30))

\* the run going on with the objects of the run before
StartOfRun_carry(pl, sq) == RunState(pl, sq)

\* plan = {}; seq_flags = set(): the run binds both names to fresh objects,
\* whatever they held before
StartOfRun(pl, sq) == RunState(<<>>, {})

\* the calls of the run up to the aggregation
ScriptOps(t, prog, gb, gi, ms, ps) ==
  baseline_checks(include_61215_of(prog), include_61730_of(prog))
  \o GateStep(gb, prog, gi)
  \o RuleCalls(t, prog, ms, ps)

(***************************************************************************)
(* Collect tests into DataFrame                                            *)
(***************************************************************************)
\* the Test IDs in the order of Python's string comparison
SortedTestIDs ==
  <<"MQT 01", "MQT 03", "MQT 04", "MQT 06.1", "MQT 07", "MQT 09", "MQT 10",
    "MQT 11-200", "MQT 11-50", "MQT 12", "MQT 13", "MQT 14.1", "MQT 14.2",
    "MQT 15", "MQT 16", "MQT 17", "MQT 18", "MQT 18.1", "MQT 19", "MQT 20",
    "MQT 21", "MQT 22",
    "MST 01", "MST 03", "MST 04", "MST 05", "MST 06", "MST 07", "MST 11",
    "MST 12", "MST 13", "MST 14", "MST 16", "MST 17", "MST 22", "MST 24",
    "MST 25", "MST 26", "MST 32", "MST 33", "MST 34", "MST 35", "MST 36",
    "MST 37", "MST 42", "MST 51-200", "MST 51-50", "MST 52", "MST 53",
    "MST 54", "MST 57">>

TestIDRanks ==
  [code \in {SortedTestIDs[i] : i \in 1..Len(SortedTestIDs)} |->
     CHOOSE i \in 1..Len(SortedTestIDs) : SortedTestIDs[i] = code]

TestIDRank(code) == TestIDRanks[code]

StandardRank(standard) == IF standard = "IEC 61215" THEN 1 ELSE 2

\* (Standard, Test ID) of a <= (Standard, Test ID) of b
RowLeq(a, b) ==
  \/ StandardRank(a.Standard) < StandardRank(b.Standard)
  \/ /\ a.Standard = b.Standard
     /\ TestIDRank(a.TestID) <= TestIDRank(b.TestID)

\* the place of a (Standard, Test ID) pair in the order of the sort
RowRank(r) == (StandardRank(r.Standard) - 1) * Len(SortedTestIDs) + TestIDRank(r.TestID)

\* the rows by rank, rows of one rank in the order they have: a row is
\* sorted as its rank and, below that, its place in rows
InOrder(rows) ==
  LET n == Len(rows) + 1
  IN {[k \in 1..Len(rows) |-> rows[order[k] % n]] :
        order \in {SortSeq([i \in 1..Len(rows) |-> RowRank(rows[i]) * n + i],
                           LAMBDA a, b : a < b)}}

\* the table left in insertion order
sort_values_unsorted(rows) == rows

\* sort_values(["Standard", "Test ID"])
sort_values(rows) == CHOOSE sorted \in UNION {InOrder(rs) : rs \in {rows}} : TRUE

\* one row per plan entry other than the notes entry; a cell of Clause ref
\* or Reason(s) is the "; "-join of the sorted set, kept here as the set
\* (no clause or reason contains "; ")
RECURSIVE Tests(_)
Tests(pl) ==
  IF pl = <<>> THEN <<>>
  ELSE IF Head(pl).key = NOTES_KEY THEN Tests(Tail(pl))
  ELSE <<[Standard |-> Head(pl).Standard, TestID |-> Head(pl).TestID,
          TestName |-> Head(pl).TestName, ClauseRef |-> Head(pl).Clauses,
          Reasons |-> Head(pl).Reasons]>> \o Tests(Tail(pl))

NotesOf(pl) == IF HasKey(pl, NOTES_KEY) THEN pl[IndexOf(pl, NOTES_KEY)].NotesOnly ELSE <<>>

\* the outcome of the run: sort_values raises KeyError on a table without
\* columns, and an exception ends the run with nothing rendered
Outcome(st, gb, prog, gi) ==
  IF ~st.raised /\ Tests(st.plan) # <<>>
  THEN [status |-> "plan", plan |-> st.plan, seq_flags |-> st.seq_flags,
        gate_results |-> GateResults(gb, prog, gi),
        df |-> sort_values(Tests(st.plan)), notes |-> NotesOf(st.plan)]
  ELSE [status |-> "error", plan |-> <<>>, seq_flags |-> {},
        gate_results |-> EmptyDict, df |-> <<>>, notes |-> <<>>]

RunOutcome(st0, t, prog, gb, gi, ms, ps) ==
  CHOOSE r \in {Outcome(st, gb, prog, gi) :
                  st \in {Apply(st0, ScriptOps(t, prog, gb, gi, ms, ps))}} : TRUE

\* what a first-ever Generate gives for the inputs
build_plan(t, prog, gb, gi, ms, ps) == RunOutcome(RunState(<<>>, {}), t, prog, gb, gi, ms, ps)

(***************************************************************************)
(* The session.  Spec explores sessions from a fresh page; SpecPanel       *)
(* explores sessions on one selected modification, whose selection does    *)
(* not count as an edit.                                                   *)
(***************************************************************************)
NoCall == [fn |-> "none"]

Fresh ==
  /\ plan = <<>>
  /\ seq_flags = {}
  /\ gate_results = EmptyDict
  /\ df = <<>>
  /\ notes = <<>>
  /\ status = "idle"
  /\ call = NoCall

Init ==
  /\ tech = WBT
  /\ program = "IEC 61215 only"
  /\ gate_block = FALSE
  /\ gate_input = EmptyDict
  /\ mods = {}
  /\ params = EmptyDict
  /\ Fresh

InitPanel ==
  /\ tech \in Technologies
  /\ program = "IEC 61215 only"
  /\ gate_block = FALSE
  /\ gate_input = EmptyDict
  /\ \E m \in ModOptions(tech) : mods = {m}
  /\ params = Render(tech, mods, {}, EmptyDict)
  /\ Fresh

\* a run the button did not trigger that leaves what was displayed in place
Rerun_keeping(free, t, prog, gb, gi, ms, ps) ==
  /\ Cardinality(ms) <= MaxMods
  /\ EditsOf(t, prog, gb, gi, ms, ps) <= MaxEdits + free
  /\ tech' = t
  /\ program' = prog
  /\ gate_block' = gb
  /\ gate_input' = gi
  /\ mods' = ms
  /\ params' = ps
  /\ UNCHANGED <<plan, seq_flags, gate_results, df, notes, status, call>>

\* a run the button did not trigger: the widgets are rendered, no plan is.
\* free is the number of edits the session does not count.
Rerun(free, t, prog, gb, gi, ms, ps) ==
  /\ Cardinality(ms) <= MaxMods
  /\ EditsOf(t, prog, gb, gi, ms, ps) <= MaxEdits + free
  /\ tech' = t
  /\ program' = prog
  /\ gate_block' = gb
  /\ gate_input' = gi
  /\ mods' = ms
  /\ params' = ps
  /\ plan' = <<>>
  /\ seq_flags' = {}
  /\ gate_results' = EmptyDict
  /\ df' = <<>>
  /\ notes' = <<>>
  /\ status' = "idle"
  /\ UNCHANGED call

\* the options of the multiselect change with the technology: the selection
\* is either kept as far as it is still offered or reset, by the framework
ChangeTech(free) ==
  \E t \in Technologies \ {tech} :
    \E ms \in {{}, mods \cap ModOptions(t)} :
      Rerun(free, t, program, gate_block, gate_input, ms, Render(t, ms, mods, params))

ChangeProgram(free) ==
  \E prog \in Programs \ {program} :
    Rerun(free, tech, prog, gate_block, RenderGate(gate_block, prog, gate_input), mods, params)

ToggleGate(free) ==
  Rerun(free, tech, program, ~gate_block, RenderGate(~gate_block, program, gate_input),
        mods, params)

SetGateInput(free) ==
  \E k \in DOMAIN gate_input :
    \E v \in {N(x) : x \in 0..MaxPmp} \ {gate_input[k]} :
      Rerun(free, tech, program, gate_block, [gate_input EXCEPT ![k] = v], mods, params)

\* selecting a modification is one more edit, unless it is an MLI category,
\* whose checkbox of the MLI panel is created anew
SelectMod ==
  /\ Cardinality(mods) < MaxMods
  /\ \E room \in {EditsOf(tech, program, gate_block, gate_input, mods, params) < MaxEdits} :
       \E m \in ModOptions(tech) \ mods :
         /\ ~(~room /\ m \notin MLIMods)
         /\ Rerun(0, tech, program, gate_block, gate_input, mods \cup {m},
                  Render(tech, mods \cup {m}, mods, params))

DeselectMod ==
  \E m \in mods :
    Rerun(0, tech, program, gate_block, gate_input, mods \ {m},
          Render(tech, mods \ {m}, mods, params))

\* an edit of a widget that is as created needs room for one more edit
SetParam(free) ==
  \E room \in {EditsOf(tech, program, gate_block, gate_input, mods, params) < MaxEdits + free} :
    \E k \in DOMAIN params :
      /\ ~(~room /\ params[k] = WidgetDefault(k, mods))
      /\ \E v \in WidgetValues(k) \ {params[k]} :
           Rerun(free, tech, program, gate_block, gate_input, mods, [params EXCEPT ![k] = v])

\* the Generate Retest Plan button
Generate ==
  \E r \in {RunOutcome(StartOfRun(plan, seq_flags), tech, program, gate_block,
                       gate_input, mods, params)} :
     /\ plan' = r.plan
     /\ seq_flags' = r.seq_flags
     /\ gate_results' = r.gate_results
     /\ df' = r.df
     /\ notes' = r.notes
     /\ status' = r.status
     /\ UNCHANGED <<tech, program, gate_block, gate_input, mods, params, call>>

Next ==
  \/ ChangeTech(0)
  \/ ChangeProgram(0)
  \/ ToggleGate(0)
  \/ SetGateInput(0)
  \/ SelectMod
  \/ DeselectMod
  \/ SetParam(0)
  \/ Generate

Spec == Init /\ [][Next]_vars

NextPanel ==
  \/ ChangeTech(1)
  \/ ChangeProgram(1)
  \/ ToggleGate(1)
  \/ SetGateInput(1)
  \/ SetParam(1)
  \/ Generate

SpecPanel == InitPanel /\ [][NextPanel]_vars

(***************************************************************************)
(* The rule functions called directly.  SpecRules calls baseline_checks    *)
(* and the rule functions on a plan of its own, with parameter dicts in    *)
(* which fields may be missing or None.                                    *)
(***************************************************************************)
MaxDev == 2

RuleNames ==
  {"rules_frontsheet", "rules_encapsulation", "rules_cell_technology_wbt",
   "rules_interconnect_wbt", "rules_backsheet", "rules_electrical_termination",
   "rules_bypass_diode", "rules_electrical_circuitry_wbt", "rules_edge_seal",
   "rules_frame_mounting", "rules_module_size", "rules_output_power_identical_size",
   "rules_ocp_increase", "rules_system_voltage_increase",
   "rules_cell_fixing_internal_tape_wbt", "rules_label_material",
   "rules_monofacial_to_bifacial", "rules_operating_temperature",
   "rules_mli_front_back_contact_edge_deletion_interconnect"}

\* the fields a rule function reads as conditions
BoolFields(fn) ==
  CASE fn = "rules_frontsheet" ->
         {"surface_treatment_changed", "strengthening_change", "model_designation_change",
          "glass_to_poly_or_vice_versa", "jb_on_frontsheet", "flexible_module",
          "outside_surface_only", "cemented_joint"}
    [] fn = "rules_encapsulation" ->
         {"different_material", "additives_change_same_material", "flexible_module",
          "frontsheet_polymeric", "front_or_back_polymeric", "material_changed_composition",
          "cemented_joint", "pollution_degree_1"}
    [] fn = "rules_cell_technology_wbt" ->
         {"tech_change", "ar_change", "crystallization_change", "manufacturer_change"}
    [] fn = "rules_interconnect_wbt" -> {"different_material", "solder_flux_change"}
    [] fn = "rules_backsheet" ->
         {"surface_treatment_changed", "outside_surface_only", "jb_on_backsheet",
          "flexible_module", "mounting_depends_on_backsheet", "rigidity_depends_on_backsheet",
          "strengthening_change", "model_designation_change", "cemented_joint",
          "pollution_degree_1"}
    [] fn = "rules_electrical_termination" ->
         {"jb_not_sun_exposed", "potting_change_only", "only_cable_or_connector_change",
          "jb_prequalified", "only_mech_attachment_or_num_jb", "relocation_or_position_only",
          "electrical_attachment_only", "electrical_attachment_change",
          "attachment_changes_only", "adhesive_change", "screw_connections_applicable",
          "cemented_joint", "jb_weight_increase", "pollution_degree_1"}
    [] fn = "rules_bypass_diode" -> {"cells_per_diode_changed", "mounting_method_change"}
    [] fn = "rules_electrical_circuitry_wbt" ->
         {"more_cells_per_diode", "internal_conductors_behind_cells", "reroute_output_leads",
          "polymeric_outer"}
    [] fn = "rules_edge_seal" -> {"outer_enclosure", "diff_material"}
    [] fn = "rules_frame_mounting" ->
         {"adhesive_change", "polymeric_frame_change", "framed_to_frameless",
          "nonpolymeric_to_polymeric", "equipotential_bonding_change",
          "screw_connections_applicable", "creep_not_prevented_anymore"}
    [] fn = "rules_module_size" -> {"non_tempered_or_nonglass", "flexible_module"}
    [] fn = "rules_ocp_increase" -> {"ocp_increased"}
    [] fn = "rules_system_voltage_increase" -> {"increased_by_gt5", "non_glass_outer"}
    [] fn = "rules_cell_fixing_internal_tape_wbt" -> {"diff_material_or_manufacturer"}
    [] fn = "rules_label_material" -> {"diff_label_or_ink_or_adhesive"}
    [] fn = "rules_monofacial_to_bifacial" -> {"include_tc50_block", "glass_backsheet"}
    [] fn = "rules_mli_front_back_contact_edge_deletion_interconnect" ->
         {"mli_front_contact_change", "mli_back_contact_change", "mli_edge_deletion_change",
          "mli_interconnect_change", "material_change", "cemented_joint"}
    [] OTHER -> {}

\* the fields a rule function compares with a threshold, with values on
\* both sides of it
NumFields(fn) ==
  CASE fn = "rules_frontsheet" -> [k \in {"thickness_change_pct"} |-> {-1, 0}]
    [] fn = "rules_encapsulation" ->
         ("thickness_change_pct" :> {-21, -20, 0}) @@ ("volume_resistivity_drop_order" :> {0, 1})
    [] fn = "rules_cell_technology_wbt" -> [k \in {"cell_thickness_reduction_pct"} |-> {-1, 0}]
    [] fn = "rules_backsheet" -> [k \in {"thickness_change_pct"} |-> {-1, 0}]
    [] fn = "rules_electrical_circuitry_wbt" ->
         ("isc_increase_pct" :> {0, 10, 11}) @@ ("operating_v_or_i_increase_pct" :> {0, 9, 10})
    [] fn = "rules_module_size" -> [k \in {"increase_pct"} |-> {0, 20, 21}]
    [] fn = "rules_output_power_identical_size" -> [k \in {"isc_increase_pct"} |-> {0, 10, 11}]
    [] OTHER -> [k \in {} |-> {}]

\* the fields a rule function compares with a string
StrFields(fn) ==
  CASE fn = "rules_frontsheet" ->
         ("material_type" :> {"glass", "polymeric"})
         @@ ("ar_lambda_c_uv_change" :> {"unknown", ">= previous", "< previous"})
    [] fn = "rules_backsheet" -> [k \in {"material_type"} |-> {"glass", "polymeric"}]
    [] fn = "rules_operating_temperature" ->
         [k \in {"qualifying_to_level"} |-> {"none", "level1", "level2"}]
    [] OTHER -> [k \in {} |-> {}]

Fields(fn) == BoolFields(fn) \cup DOMAIN NumFields(fn) \cup DOMAIN StrFields(fn)

\* the value of a field in the dict the script builds from untouched widgets
FieldDefault(fn, k) ==
  CASE k = "include_tc50_block" -> B(TRUE)
    [] k \in {"material_type"} -> S("glass")
    [] k = "ar_lambda_c_uv_change" -> S("unknown")
    [] k = "qualifying_to_level" -> S("none")
    [] k \in DOMAIN NumFields(fn) -> N(0)
    [] OTHER -> B(FALSE)

Absent == [t |-> "absent"]

\* what a field can be instead: missing, None, or another value of its type
FieldAlternatives(fn, k) ==
  ({Absent, None}
   \cup (IF k \in BoolFields(fn) THEN {B(FALSE), B(TRUE)} ELSE {})
   \cup (IF k \in DOMAIN NumFields(fn) THEN {N(x) : x \in NumFields(fn)[k]} ELSE {})
   \cup (IF k \in DOMAIN StrFields(fn) THEN {S(x) : x \in StrFields(fn)[k]} ELSE {}))
  \ {FieldDefault(fn, k)}

AllAlternatives(fn) == UNION {FieldAlternatives(fn, k) : k \in Fields(fn)}

\* the dict with the fields of f set as f says and the others at their default
DictOf(fn, f) ==
  [k \in Fields(fn) \ {x \in DOMAIN f : f[x] = Absent} |->
     IF k \in DOMAIN f THEN f[k] ELSE FieldDefault(fn, k)]

\* the parameter dicts in which at most MaxDev fields are off their default
ParamSets(fn) ==
  UNION {{DictOf(fn, f) : f \in {g \in [X -> AllAlternatives(fn)] :
                                   \A k \in X : g[k] \in FieldAlternatives(fn, k)}} :
         X \in {Y \in SUBSET Fields(fn) : Cardinality(Y) <= MaxDev}}

\* the calls a rule function makes; the script passes the technology, which
\* no rule function reads
RuleOps(fn, p, i15, i30) ==
  CASE fn = "rules_frontsheet" -> rules_frontsheet(p, WBT, i15, i30)
    [] fn = "rules_encapsulation" -> rules_encapsulation(p, WBT, i15, i30)
    [] fn = "rules_cell_technology_wbt" -> rules_cell_technology_wbt(p, i15, i30)
    [] fn = "rules_interconnect_wbt" -> rules_interconnect_wbt(p, i15, i30)
    [] fn = "rules_backsheet" -> rules_backsheet(p, WBT, i15, i30)
    [] fn = "rules_electrical_termination" -> rules_electrical_termination(p, i15, i30)
    [] fn = "rules_bypass_diode" -> rules_bypass_diode(p, i15, i30)
    [] fn = "rules_electrical_circuitry_wbt" -> rules_electrical_circuitry_wbt(p, i15, i30)
    [] fn = "rules_edge_seal" -> rules_edge_seal(p, i15, i30)
    [] fn = "rules_frame_mounting" -> rules_frame_mounting(p, i15, i30)
    [] fn = "rules_module_size" -> rules_module_size(p, WBT, i15, i30)
    [] fn = "rules_output_power_identical_size" -> rules_output_power_identical_size(p, i15, i30)
    [] fn = "rules_ocp_increase" -> rules_ocp_increase(p, i30)
    [] fn = "rules_system_voltage_increase" -> rules_system_voltage_increase(p, i15, i30)
    [] fn = "rules_cell_fixing_internal_tape_wbt" -> rules_cell_fixing_internal_tape_wbt(p, i15)
    [] fn = "rules_label_material" -> rules_label_material(p, i30)
    [] fn = "rules_monofacial_to_bifacial" -> rules_monofacial_to_bifacial(p, i15, i30)
    [] fn = "rules_operating_temperature" -> rules_operating_temperature(p)
    [] fn = "rules_mli_front_back_contact_edge_deletion_interconnect" ->
         rules_mli_front_back_contact_edge_deletion_interconnect(p, i15, i30)

\* a rule function called with plan = {} and seq_flags = set()
RuleResult(fn, p, i15, i30) == Apply(RunState(<<>>, {}), RuleOps(fn, p, i15, i30))

\* a plan and a flag set of the caller's own
NewPlan ==
  /\ call # NoCall
  /\ plan' = <<>>
  /\ seq_flags' = {}
  /\ status' = "idle"
  /\ call' = NoCall
  /\ UNCHANGED <<inputs, gate_results, df, notes>>

\* baseline_checks(include_61215, include_61730, plan) on the plan as it is;
\* again tells that the call before was the same call
CallBaseline ==
  /\ call.fn \in {"none", "baseline_checks"}
  /\ \E prog \in Programs :
    LET i15 == include_61215_of(prog)
        i30 == include_61730_of(prog)
    IN /\ plan' = Apply(RunState(plan, seq_flags), baseline_checks(i15, i30)).plan
       /\ status' = "returned"
       /\ call' = [fn |-> "baseline_checks", include_61215 |-> i15, include_61730 |-> i30,
                   before |-> plan,
                   again |-> /\ call.fn = "baseline_checks"
                             /\ call.include_61215 = i15
                             /\ call.include_61730 = i30]
       /\ UNCHANGED <<inputs, seq_flags, gate_results, df, notes>>

\* rules_...(p, ..., seq_flags, plan) with plan = {} and seq_flags = set()
CallRule ==
  /\ call = NoCall
  /\ \E fn \in RuleNames, prog \in Programs :
      \E p \in ParamSets(fn) :
       \E st \in {RuleResult(fn, p, include_61215_of(prog), include_61730_of(prog))} :
        /\ plan' = st.plan
        /\ seq_flags' = st.seq_flags
        /\ status' = IF st.raised THEN "error" ELSE "returned"
        /\ call' = [fn |-> fn, p |-> p, include_61215 |-> include_61215_of(prog),
                    include_61730 |-> include_61730_of(prog)]
        /\ UNCHANGED <<inputs, gate_results, df, notes>>

NextRules ==
  \/ NewPlan
  \/ CallBaseline
  \/ CallRule

SpecRules == Init /\ [][NextRules]_vars

(***************************************************************************)
(* Properties                                                              *)
(***************************************************************************)
\* the add_test calls of the run on the current inputs
TestCalls ==
  LET ops == ScriptOps(tech, program, gate_block, gate_input, mods, params)
  IN {ops[i] : i \in {j \in 1..Len(ops) : ops[j].op = "test"}}

Rows(pl) == {i \in 1..Len(pl) : pl[i].key # NOTES_KEY}

\* the table has a row of the standard and Test ID
HasRow(standard, code) ==
  \E i \in 1..Len(df) : df[i].Standard = standard /\ df[i].TestID = code

\* C1: the plan of a Generate holds one entry per (standard, code) pair that
\* the baseline step or a rule function contributed, whatever the number of
\* contributions; the entry keeps the Standard, Test ID and Test name of the
\* pair, and its reasons and clauses are those of all the contributions
C1_OneEntryPerStandardAndCode ==
  status = "plan" =>
    \A calls \in {TestCalls} :
      /\ \A i, j \in 1..Len(plan) : plan[i].key = plan[j].key => i = j
      /\ {plan[i].key : i \in Rows(plan)} = {<<o.standard, o.code>> : o \in calls}
      /\ \A i \in Rows(plan) :
           LET e == plan[i]
               mine == {o \in calls : <<o.standard, o.code>> = e.key}
           IN /\ e.Standard = e.key[1]
              /\ e.TestID = e.key[2]
              /\ e.TestName = Get(IF e.Standard = "IEC 61215" THEN TESTS_61215 ELSE TESTS_61730,
                                  e.TestID, e.TestID)
              /\ e.Reasons = {o.reason : o \in mine}
              /\ e.Clauses = {o.clause : o \in mine}

\* two rule functions contributed the same test with different reasons
C1_Witness ==
  /\ status = "plan"
  /\ Cardinality(mods) = 2
  /\ \E i \in Rows(plan) :
       /\ Cardinality(plan[i].Reasons) >= 2
       /\ Cardinality(plan[i].Clauses) >= 2

\* C2: the table of a Generate holds MQT 01, MQT 03, MQT 06.1, MQT 15 and
\* MQT 19 whenever IEC 61215 is in the program and MST 01, MST 03, MST 16 and
\* MST 17 whenever IEC 61730 is, each with clause reference 4.1, whatever
\* the modifications
C2_BaselineAlwaysInTable ==
  status = "plan" =>
    /\ include_61215 =>
         \A c \in {"MQT 01", "MQT 03", "MQT 06.1", "MQT 15", "MQT 19"} :
           \E i \in 1..Len(df) :
             df[i].Standard = "IEC 61215" /\ df[i].TestID = c /\ df[i].ClauseRef = {"4.1"}
    /\ include_61730 =>
         \A c \in {"MST 01", "MST 03", "MST 16", "MST 17"} :
           \E i \in 1..Len(df) :
             df[i].Standard = "IEC 61730" /\ df[i].TestID = c /\ df[i].ClauseRef = {"4.1"}

\* a table of the combined program with the tests of a modification
C2_Witness ==
  /\ status = "plan"
  /\ include_61215 /\ include_61730
  /\ mods # {}
  /\ Len(df) > 9

\* C3: baseline_checks called a second time with the same flags on the plan
\* of the first call leaves that plan as it is
C3_BaselineTwiceIsOnce ==
  (call.fn = "baseline_checks" /\ call.again) => plan = call.before

\* the second of two calls for the combined program
C3_Witness ==
  /\ call.fn = "baseline_checks" /\ call.again
  /\ call.include_61215 /\ call.include_61730
  /\ Len(plan) = 9

\* C4: the table, notes and sequence flags a Generate leaves are those of a
\* first Generate on the same inputs, whatever was generated before
C4_GenerateStartsAfresh ==
  status \in {"plan", "error"} =>
    LET first == build_plan(tech, program, gate_block, gate_input, mods, params)
    IN /\ status = first.status
       /\ df = first.df
       /\ notes = first.notes
       /\ seq_flags = first.seq_flags
       /\ plan = first.plan
       /\ gate_results = first.gate_results

\* a result with a note and a sequence flag
C4_Witness ==
  /\ status = "plan"
  /\ notes # <<>>
  /\ seq_flags # {}

\* what Generate gives for the current inputs with the gate recording off
WithoutGate == build_plan(tech, program, FALSE, EmptyDict, mods, params)

RatedPmp == Num(Get(gate_input, "rated_Pmp_W", N(0)))

\* C5: a Generate with the gate recording enabled, IEC 61215 in the program
\* and a rated Pmp of zero does not fail: the plan is produced, the power
\* delta is left unset and the gate note is appended
C5_GateWithZeroRatedPmp ==
  (status # "idle" /\ GateRuns(gate_block, program) /\ RatedPmp = 0) =>
    /\ status = "plan"
    /\ "Delta_Pmp_%" \in DOMAIN gate_results
    /\ gate_results["Delta_Pmp_%"] = None
    /\ Len(notes) = Len(WithoutGate.notes) + 1

\* C6: the gate step runs only when it is enabled and IEC 61215 is in the
\* program; when it runs the result has exactly one note more than without
\* it and the same table and sequence flags, and when it does not run the
\* result has no note more and the gate result is empty
C6_GateStepAddsOneNoteOnly ==
  status # "idle" =>
    IF gate_block /\ include_61215
    THEN /\ status = "plan"
         /\ Len(notes) = Len(WithoutGate.notes) + 1
         /\ SubSeq(notes, 2, Len(notes)) = WithoutGate.notes
         /\ df = WithoutGate.df
         /\ seq_flags = WithoutGate.seq_flags
         /\ gate_results # EmptyDict
    ELSE /\ notes = WithoutGate.notes
         /\ df = WithoutGate.df
         /\ seq_flags = WithoutGate.seq_flags
         /\ gate_results = EmptyDict

\* only the Frontsheet modification, with glass, no strengthening change,
\* UV cutoff ">= previous" and outside-surface-only, the rest at the defaults
\* but for the surface-treatment-changed checkbox
FrontsheetScenario(surface_treatment_changed) ==
  /\ mods = {"Frontsheet"}
  /\ params = [Render(tech, mods, {}, EmptyDict) EXCEPT
                 !["frontsheet.ar_lambda_c_uv_change"] = S(">= previous"),
                 !["frontsheet.outside_surface_only"] = B(TRUE),
                 !["frontsheet.surface_treatment_changed"] = B(surface_treatment_changed)]

Baseline61215InTable ==
  \A c \in {"MQT 01", "MQT 03", "MQT 06.1", "MQT 15", "MQT 19"} : HasRow("IEC 61215", c)

\* C7 as stated: in the scenario with every other parameter at its default
\* the IEC 61215 part of the table has none of MQT 09, MQT 10, MQT 20,
\* MQT 11-50, MQT 12, MQT 16 and MQT 17, and it has the 61215 baseline
C7_FrontsheetScenarioAsStated ==
  (status = "plan" /\ include_61215 /\ FrontsheetScenario(FALSE)) =>
    /\ \A c \in {"MQT 09", "MQT 10", "MQT 20", "MQT 11-50", "MQT 12", "MQT 16", "MQT 17"} :
         ~HasRow("IEC 61215", c)
    /\ Baseline61215InTable

\* C7: in the scenario the IEC 61215 part of the table has none of MQT 09,
\* MQT 10, MQT 20, MQT 11-50 and MQT 12 and has the 61215 baseline; it has
\* none of MQT 16 and MQT 17 when surface-treatment-changed is set as well,
\* and both of them when it is left unset
C7_FrontsheetScenario ==
  \A surface \in BOOLEAN :
    (status = "plan" /\ include_61215 /\ FrontsheetScenario(surface)) =>
      /\ \A c \in {"MQT 09", "MQT 10", "MQT 20", "MQT 11-50", "MQT 12"} :
           ~HasRow("IEC 61215", c)
      /\ \A c \in {"MQT 16", "MQT 17"} : HasRow("IEC 61215", c) <=> ~surface
      /\ Baseline61215InTable

\* the plan of the scenario with surface-treatment-changed set
C7_Witness ==
  /\ status = "plan"
  /\ include_61215
  /\ FrontsheetScenario(TRUE)

\* C8: under the combined program, with the system-voltage modification
\* selected and its >5% and non-glass-outer flags set, the IEC 61730 part of
\* the table has MST 22, MST 54, MST 51-50, MST 52, MST 51-200, MST 53,
\* MST 04, MST 11, MST 12, MST 13 and MST 14, the sequence flags have
\* (SEQ_B, 4.2.14/4.3.17) and the notes have the creepage/clearance note
C8_SystemVoltageScenario ==
  (/\ status = "plan"
   /\ program = "Combined IEC 61215 + IEC 61730"
   /\ "Increase system voltage (>5%)" \in mods
   /\ Tr(params, "vsys.increased_by_gt5")
   /\ Tr(params, "vsys.non_glass_outer")) =>
    /\ \A c \in {"MST 22", "MST 54", "MST 51-50", "MST 52", "MST 51-200", "MST 53",
                 "MST 04", "MST 11", "MST 12", "MST 13", "MST 14"} :
         HasRow("IEC 61730", c)
    /\ <<"SEQ_B", "4.2.14/4.3.17">> \in seq_flags
    /\ \E i \in 1..Len(notes) :
         notes[i] = "Re-evaluate creepage/clearance per IEC 61730-1 (inspection/testing)."

\* the plan of that scenario
C8_Witness ==
  /\ status = "plan"
  /\ program = "Combined IEC 61215 + IEC 61730"
  /\ mods = {"Increase system voltage (>5%)"}
  /\ Tr(params, "vsys.increased_by_gt5")
  /\ Tr(params, "vsys.non_glass_outer")

\* the outcome of the rule call the state records
Returned == [plan |-> plan, seq_flags |-> seq_flags, raised |-> status = "error"]

CallResult(p) == RuleResult(call.fn, p, call.include_61215, call.include_61730)

\* p with every missing or None field of ks set to v
Filled(p, ks, v) ==
  [k \in DOMAIN p \cup ks |->
     IF k \in ks /\ (k \notin DOMAIN p \/ p[k] = None) THEN v ELSE p[k]]

Unset(p, ks) == {k \in ks : k \notin DOMAIN p \/ p[k] = None}

\* C9: a rule function called with a numeric field missing or None returns
\* without raising, with the tests, notes and sequence flags it gives when
\* the field is 0
C9_UnsetNumericIsZero ==
  (call.fn \in RuleNames /\ Unset(call.p, DOMAIN NumFields(call.fn)) # {}) =>
    /\ status = "returned"
    /\ Returned = CallResult(Filled(call.p, DOMAIN NumFields(call.fn), N(0)))

Missing(p, ks) == ks \ DOMAIN p

\* p with every missing field of ks set to v
Given(p, ks, v) == [k \in DOMAIN p \cup ks |-> IF k \in DOMAIN p THEN p[k] ELSE v]

\* the boolean fields a rule function reads with True as the default
DefaultTrueFields == {"front_or_back_polymeric", "include_tc50_block"}

\* C10 as stated: a rule function called with a boolean field missing gives
\* the tests, notes and sequence flags it gives with the field False
C10_MissingBooleanIsFalse ==
  (call.fn \in RuleNames /\ Missing(call.p, BoolFields(call.fn)) # {}) =>
    Returned = CallResult(Given(call.p, BoolFields(call.fn), B(FALSE)))

\* C10: a rule function called with a boolean field missing gives the tests,
\* notes and sequence flags it gives with the field False, but for
\* front_or_back_polymeric of the encapsulation rule and include_tc50_block
\* of the bifacial rule, where it gives those of the field True
C10_MissingBooleanIsItsDefault ==
  (call.fn \in RuleNames /\ Missing(call.p, BoolFields(call.fn)) # {}) =>
    Returned = CallResult(Given(Given(call.p, BoolFields(call.fn) \cap DefaultTrueFields, B(TRUE)),
                                BoolFields(call.fn), B(FALSE)))

\* the encapsulation rule called without front_or_back_polymeric, which
\* added the cut susceptibility test
C10_Witness ==
  /\ call.fn = "rules_encapsulation"
  /\ "front_or_back_polymeric" \notin DOMAIN call.p
  /\ \E i \in Rows(plan) : plan[i].key = <<"IEC 61730", "MST 12">>

\* C11: a Generate on an empty selection of modifications shows no plan
\* table and computes no plan
C11_NoModificationNoTable ==
  (mods = {} /\ status # "idle") => (status # "plan" /\ df = <<>> /\ plan = <<>>)

\* the clause of the bundle of each MLI category
MLIBundleClause ==
  ("MLI: Front contact" :> "4.3.3") @@ ("MLI: Back contact" :> "4.3.6")
  @@ ("MLI: Edge deletion" :> "4.3.7")
  @@ ("MLI: Interconnect material/technique" :> "4.3.8")

\* the plan holds a test that the bundle of the MLI category m contributed
HasBundle(m) == \E i \in Rows(plan) : MLIBundleClause[m] \in plan[i].Clauses

\* the modification whose rule function cites the clause
CategoryOfClause ==
  ("4.2.1/4.3.1" :> "Frontsheet")
  @@ ("4.2.2" :> "Encapsulation") @@ ("4.2.2/4.3.2" :> "Encapsulation")
  @@ ("4.2.3" :> "Cell technology (WBT)")
  @@ ("4.2.4" :> "Cell & string interconnect (WBT)")
  @@ ("4.2.5/4.3.9" :> "Backsheet")
  @@ ("4.2.6" :> "Electrical termination") @@ ("4.2.6/4.3.10" :> "Electrical termination")
  @@ ("4.2.7/4.3.11" :> "Bypass diode")
  @@ ("4.2.8" :> "Electrical circuitry (WBT)")
  @@ ("4.2.9/4.3.12" :> "Edge sealing")
  @@ ("4.2.10" :> "Frame & mounting") @@ ("4.2.10/4.3.13" :> "Frame & mounting")
  @@ ("4.2.11/4.3.14" :> "Module size increase")
  @@ ("4.2.12/4.3.15" :> "Higher/lower output power (identical design & size)")
  @@ ("4.2.13/4.3.16" :> "Increase OCP rating")
  @@ ("4.2.14/4.3.17" :> "Increase system voltage (>5%)")
  @@ ("4.2.15" :> "Cell fixing / internal insulation tape (WBT)")
  @@ ("4.2.16/4.3.18" :> "Label material (external nameplate)")
  @@ ("4.2.17/4.3.19" :> "Change to bifacial")

\* every test of the plan that a category's rule function contributed is of
\* a selected category
TestsOnlyOfSelected ==
  \A i \in Rows(plan) : \A c \in plan[i].Clauses :
    /\ c \in DOMAIN CategoryOfClause \cup {"4.1", "4.3.3", "4.3.6", "4.3.7", "4.3.8"}
    /\ c \in DOMAIN CategoryOfClause => CategoryOfClause[c] \in mods

\* the checkbox of the MLI panel that stands for the sub-change of m
MLIBox ==
  ("MLI: Front contact" :> "mli.front_contact_change")
  @@ ("MLI: Back contact" :> "mli.back_contact_change")
  @@ ("MLI: Edge deletion" :> "mli.edge_deletion_change")
  @@ ("MLI: Interconnect material/technique" :> "mli.interconnect_change")

Ticked(m) == MLIBox[m] \in DOMAIN params /\ Truthy(params[MLIBox[m]])

\* C12 as stated: the tests of a category are in the plan of a Generate only
\* if the category is selected, and the front-contact, back-contact,
\* edge-deletion or interconnect bundle only if the MLI category of the
\* bundle is selected
C12_BundleOnlyOfSelectedCategory ==
  status = "plan" =>
    /\ TestsOnlyOfSelected
    /\ \A m \in MLIMods : HasBundle(m) => m \in mods

\* C12: the tests of a category are in the plan of a Generate only if the
\* category is selected; the bundle of an MLI sub-change is in the plan
\* exactly when its checkbox of the MLI panel is ticked, which needs MLI
\* technology and at least one MLI category selected, not the category of
\* the bundle itself
C12_BundleOfTickedSubChange ==
  status = "plan" =>
    /\ TestsOnlyOfSelected
    /\ \A m \in MLIMods :
         /\ HasBundle(m) <=> Ticked(m)
         /\ Ticked(m) => IsMLI(tech) /\ mods \cap MLIMods # {}

\* the bundle of a selected category and the bundle of one that is not
C12_Witness ==
  /\ status = "plan"
  /\ \E m \in MLIMods \ mods : HasBundle(m)
  /\ \E m \in MLIMods \cap mods : HasBundle(m)

\* C13: the rows of the table of a Generate are in non-decreasing order of
\* (Standard, Test ID), and the table has exactly one row for each test
\* entry of the plan and no other row
C13_TableSortedOneRowPerEntry ==
  status = "plan" =>
    /\ \A i \in 1..(Len(df) - 1) : RowLeq(df[i], df[i + 1])
    /\ Len(df) = Cardinality(Rows(plan))
    /\ \A i \in Rows(plan) :
         Cardinality({j \in 1..Len(df) :
                        /\ df[j].Standard = plan[i].Standard
                        /\ df[j].TestID = plan[i].TestID
                        /\ df[j].TestName = plan[i].TestName
                        /\ df[j].ClauseRef = plan[i].Clauses
                        /\ df[j].Reasons = plan[i].Reasons}) = 1

\* a table whose order is not the order in which the plan was filled
C13_Witness ==
  /\ status = "plan"
  /\ df # Tests(plan)
  /\ \E i \in 1..Len(df) : df[i].Standard = "IEC 61730"

\* C14: every test entry of the plan of a Generate, and every row of its
\* table, has at least one reason and at least one clause reference
C14_EveryRowHasReasonAndClause ==
  status = "plan" =>
    /\ \A i \in Rows(plan) : plan[i].Reasons # {} /\ plan[i].Clauses # {}
    /\ \A j \in 1..Len(df) :
         /\ df[j].Reasons # {} /\ "" \notin df[j].Reasons
         /\ df[j].ClauseRef # {} /\ "" \notin df[j].ClauseRef

\* a table with a row that a rule function contributed
C14_Witness ==
  /\ status = "plan"
  /\ \E j \in 1..Len(df) : "4.1" \notin df[j].ClauseRef /\ "baseline" \notin df[j].Reasons

(***************************************************************************)
(* Download CSV: df.to_csv(index=False), and the file loaded back with     *)
(* pandas.read_csv.  A text is the sequence of its pieces, where a comma,  *)
(* a double quote and a line feed are pieces of their own.                 *)
(***************************************************************************)
\* the reasons and clause references of the add_test calls, in the order of
\* Python's string comparison
SortedTexts ==
  <<
    "4.1", "4.2.1/4.3.1", "4.2.10", "4.2.10/4.3.13", "4.2.11/4.3.14",
    "4.2.12/4.3.15", "4.2.13/4.3.16", "4.2.14/4.3.17", "4.2.15",
    "4.2.16/4.3.18", "4.2.17/4.3.19", "4.2.2", "4.2.2/4.3.2", "4.2.3",
    "4.2.4", "4.2.5/4.3.9", "4.2.6", "4.2.6/4.3.10", "4.2.7/4.3.11", "4.2.8",
    "4.2.9/4.3.12", "4.3.3", "4.3.6", "4.3.7", "4.3.8", "Accessibility",
    "Baseline checks per 4.1 (61730 program)",
    "Baseline initial/final measurements per 4.1", "Bending (flexible)",
    "Bending test (flexible)", "Bending test for flexible non-glass",
    "Bypass diode thermal", "Bypass diode thermal (Isc increase >10%)",
    "Bypass diode thermal (Isc increased >10%)",
    "Bypass diode thermal (bifacial)",
    "Bypass diode thermal (if applicable)",
    "Continuity of equipotential bonding",
    "Continuity of equipotential bonding (OCP increase)", "Cord anchorage",
    "Cut susceptibility (non-glass)", "Cut susceptibility (polymeric outer)",
    "Cut susceptibility (rerouted leads / polymeric outer)",
    "Cyclic (dynamic) mechanical load", "Damp heat", "Damp heat (backsheet)",
    "Damp heat (cell tech change)", "Damp heat (cell tech)",
    "Damp heat (material change)", "Damp heat (material/flux change)",
    "Damp heat (size increase)", "Damp heat (termination)",
    "Damp heat for frontsheet change", "Durability of markings", "Dyn ML",
    "Dyn mech load (cell tech change)", "Dyn. mech. load",
    "Dyn. mechanical load", "Dyn. mechanical load (termination)",
    "Encapsulation change", "Frontsheet non-glass model/thickness change",
    "Frontsheet: glass strength/thickness change",
    "Hail (frame change as specified)", "Hail (non-tempered or non-glass)",
    "Hail (reduced cell thickness)", "Hail (rigidity depends on backsheet)",
    "Hail test (frontsheet change)", "Hail test (polymeric frontsheet)",
    "Hot-spot", "Hot-spot (MLI back contact)",
    "Hot-spot (MLI front contact)", "Hot-spot (backsheet change)",
    "Hot-spot (bond/IC material/adhesive/flux change)",
    "Hot-spot (cells per bypass diode changed)",
    "Hot-spot (more cells per diode)", "Hot-spot (power change)",
    "Hot-spot (power change, identical size)",
    "Hot-spot (system voltage increased)", "Hot-spot endurance",
    "Hot-spot endurance (cell tech change)",
    "Hot-spot endurance (cell tech)", "Humidity freeze",
    "Humidity freeze (cell fixing/internal tape)",
    "Ignitability (adhesive change)",
    "Ignitability (if accessible for flame)", "Ignitability (non-glass)",
    "Ignitability (polymeric frame/adhesive)", "Impulse voltage",
    "Impulse voltage (reduced thickness/different material)",
    "Impulse voltage test (non-glass changed/reduced)",
    "Impulse voltage test (non-glass reduced/changed)",
    "Insulation coordination evaluation (cemented joint)",
    "Insulation thickness",
    "Insulation thickness (rerouted leads / polymeric outer)",
    "Insulation thickness test (non-glass)",
    "Lap shear (cemented joint for JB attach)", "Lap shear (cemented joint)",
    "Lap shear (cemented joint, if applicable)", "Materials creep",
    "Materials creep (adhesive / increased termination weight)",
    "Materials creep (as applicable)", "Module breakage (frame)",
    "Module breakage (glass)",
    "Module breakage (material composition change)",
    "Module breakage (size increase)", "PID",
    "PID (cell technology/AR/crystallization/manufacturer change)",
    "PID (glass backsheet)", "PID (volume resistivity decrease >=1 order)",
    "Peel test (cemented joint for JB attach)", "Peel test (cemented joint)",
    "Peel test (cemented joint, if applicable)",
    "Performance at low irradiance", "Retention of J-box on frontsheet",
    "Retention of J-box on mounting surface", "Reverse current overload",
    "Reverse current overload (OCP increase)",
    "Reverse current overload (V/I increase >=10%)",
    "Reverse current overload (cell tech)",
    "Reverse current overload (mounting change)",
    "Robustness of terminations",
    "Robustness of terminations (frontsheet J-box)",
    "Robustness of terminations (if applicable)", "Screw connections",
    "Screw connections test (if applicable)",
    "Static mechanical load (backsheet)",
    "Static mechanical load (frame/mount)",
    "Static mechanical load (frontsheet)",
    "Static mechanical load (size increase)",
    "Static mechanical load (thickness/crystallization)", "TC 200",
    "TC 200 (MLI interconnect)", "TC 50",
    "TC 50 (edge seal outer enclosure)", "Temperature coefficients",
    "Thermal cycling 200", "Thermal cycling 200 (Isc increase >10%)",
    "Thermal cycling 200 (diode mounting change)",
    "Thermal cycling 200 (electrical attachment changed)",
    "Thermal cycling 200 (internal conductors behind cells)",
    "Thermal cycling 200 (size increase >20%)",
    "Thermal cycling 200 (thickness reduction >20%)", "Thermal cycling 50",
    "Thermal cycling 50 cycles", "UV", "UV (edge seal outer enclosure)",
    "UV (frame/adhesive, if exposed)",
    "UV (frame/mounting, if adhesive exposed)", "UV (termination)",
    "UV preconditioning", "UV preconditioning (termination)",
    "UV preconditioning for frontsheet change",
    "UV test for frontsheet change"
  >>

TextRanks ==
  [s \in {SortedTexts[i] : i \in 1..Len(SortedTexts)} |->
     CHOOSE i \in 1..Len(SortedTexts) : SortedTexts[i] = s]

\* sorted(v) of a set of reasons or clauses
RECURSIVE Sorted(_)
Sorted(v) ==
  IF v = {} THEN <<>>
  ELSE LET m == CHOOSE x \in v : \A y \in v : TextRanks[x] <= TextRanks[y]
       IN <<m>> \o Sorted(v \ {m})

\* the pieces of a string of the program; no string holds a double quote or
\* a line feed
Chars(s) ==
  CASE s = "Hot-spot (power change, identical size)"
         -> <<"Hot-spot (power change", ",", " identical size)">>
    [] s = "Peel test (cemented joint, if applicable)"
         -> <<"Peel test (cemented joint", ",", " if applicable)">>
    [] s = "Lap shear (cemented joint, if applicable)"
         -> <<"Lap shear (cemented joint", ",", " if applicable)">>
    [] s = "UV (frame/adhesive, if exposed)"
         -> <<"UV (frame/adhesive", ",", " if exposed)">>
    [] s = "UV (frame/mounting, if adhesive exposed)"
         -> <<"UV (frame/mounting", ",", " if adhesive exposed)">>
    [] OTHER -> <<s>>

\* "; ".join(texts)
RECURSIVE Join(_)
Join(texts) ==
  IF texts = <<>> THEN <<>>
  ELSE IF Len(texts) = 1 THEN Chars(texts[1])
  ELSE Chars(texts[1]) \o <<"; ">> \o Join(Tail(texts))

\* the pieces csv gives a meaning to
CsvSpecial == {",", "\"", "\n"}

RECURSIVE DoubleQuotes(_)
DoubleQuotes(chars) ==
  IF chars = <<>> THEN <<>>
  ELSE (IF Head(chars) = "\"" THEN <<"\"", "\"">> ELSE <<Head(chars)>>)
       \o DoubleQuotes(Tail(chars))

\* a field written as it is, whatever it holds
CsvField_bare(chars) == chars

\* QUOTE_MINIMAL: a field is quoted when it holds a special character, and
\* its double quotes are doubled
CsvField(chars) ==
  IF \E i \in 1..Len(chars) : chars[i] \in CsvSpecial
  THEN <<"\"">> \o DoubleQuotes(chars) \o <<"\"">>
  ELSE chars

RECURSIVE CsvLine(_)
CsvLine(fields) ==
  IF Len(fields) = 1 THEN CsvField(fields[1]) \o <<"\n">>
  ELSE CsvField(Head(fields)) \o <<",">> \o CsvLine(Tail(fields))

CsvHeader == <<"Standard", "Test ID", "Test name", "Clause ref", "Reason(s)">>

\* the cells of a row of the frame, in the order of the columns
CsvCells(row) ==
  <<Chars(row.Standard), Chars(row.TestID), Chars(row.TestName),
    Join(Sorted(row.ClauseRef)), Join(Sorted(row.Reasons))>>

RECURSIVE CsvBody(_)
CsvBody(rows) ==
  IF rows = <<>> THEN <<>> ELSE CsvLine(CsvCells(Head(rows))) \o CsvBody(Tail(rows))

to_csv(rows) == CsvLine([i \in 1..Len(CsvHeader) |-> <<CsvHeader[i]>>]) \o CsvBody(rows)

\* the reader: the lines read so far, the fields of the line being read, the
\* field being read, and where in a field the reader is
ReaderStart == [lines |-> <<>>, line |-> <<>>, field |-> "", at |-> "start"]

ReadChar(r, ch) ==
  IF r.at = "quoted"
  THEN IF ch = "\"" THEN [r EXCEPT !.at = "quote"]
       ELSE [r EXCEPT !.field = @ \o ch]
  ELSE IF ch = ","
  THEN [r EXCEPT !.line = Append(@, r.field), !.field = "", !.at = "start"]
  ELSE IF ch = "\n"
  THEN [r EXCEPT !.lines = Append(@, Append(r.line, r.field)), !.line = <<>>,
                 !.field = "", !.at = "start"]
  ELSE IF ch = "\"" /\ r.at = "start" THEN [r EXCEPT !.at = "quoted"]
  ELSE IF ch = "\"" /\ r.at = "quote" THEN [r EXCEPT !.field = @ \o ch, !.at = "quoted"]
  ELSE [r EXCEPT !.field = @ \o ch, !.at = "plain"]

\* the reader after chars[from..to], read in order (the range is halved to
\* keep the evaluation shallow)
RECURSIVE ReadRange(_, _, _, _)
ReadRange(r, chars, from, to) ==
  IF from > to THEN r
  ELSE IF from = to THEN ReadChar(r, chars[from])
  ELSE LET mid == (from + to) \div 2
       IN CHOOSE out \in {ReadRange(half, chars, mid + 1, to) :
                           half \in {ReadRange(r, chars, from, mid)}} : TRUE

ReadChars(r, chars) == ReadRange(r, chars, 1, Len(chars))

\* pandas.read_csv: the first line names the columns; a line with more
\* fields than columns is a ParserError, a missing or empty field is NaN
\* (None here), and a column of non-numeric text is kept as text
read_csv(chars) ==
  LET lines == ReadChars(ReaderStart, chars).lines
      names == Head(lines)
      cols  == {names[i] : i \in 1..Len(names)}
      data  == Tail(lines)
      Cell(l, n) == LET i == CHOOSE j \in 1..Len(names) : names[j] = n
                    IN IF i > Len(l) \/ l[i] = "" THEN None ELSE S(l[i])
  IN IF lines = <<>> \/ \E i \in 1..Len(data) : Len(data[i]) > Len(names)
     THEN [raised |-> TRUE, rows |-> <<>>]
     ELSE [raised |-> FALSE,
           rows |-> [i \in 1..Len(data) |-> [n \in cols |-> Cell(data[i], n)]]]

Contributed(standard, code) == \E i \in Rows(plan) : plan[i].key = <<standard, code>>

\* the call contributed each of the tests whose standard is included, and
\* none of the others
ContributedAll(standard, codes) ==
  LET included == IF standard = "IEC 61215" THEN call.include_61215 ELSE call.include_61730
  IN \A code \in codes : Contributed(standard, code) <=> included

ContributedNone(standard, codes) == \A code \in codes : ~Contributed(standard, code)

\* the contribution of the tests is that of every included standard exactly
\* when the condition holds
ContributedWhen(cond, mqt, mst) ==
  IF cond THEN ContributedAll("IEC 61215", mqt) /\ ContributedAll("IEC 61730", mst)
  ELSE ContributedNone("IEC 61215", mqt) /\ ContributedNone("IEC 61730", mst)

\* p.get(k, False) of the call is true
IsSet(k) == k \in DOMAIN call.p /\ Truthy(call.p[k])

\* p.get("material_type") == "glass"
IsGlass == IsStr(Get(call.p, "material_type", None), "glass")

\* C16 as stated: the frontsheet rule contributes MQT 16, MQT 17 and MST 34
\* exactly when the outside-surface-only flag is not set, and MST 32 exactly
\* when the frontsheet is glass and the flag is not set
C16_LoadAndHailUnlessOutsideOnly ==
  call.fn = "rules_frontsheet" =>
    /\ ContributedWhen(~IsSet("outside_surface_only"), {"MQT 16", "MQT 17"}, {"MST 34"})
    /\ ContributedWhen(IsGlass /\ ~IsSet("outside_surface_only"), {}, {"MST 32"})

\* C16: the frontsheet rule contributes MQT 16, MQT 17 and MST 34 exactly
\* when it is not the case that the surface treatment changed and the
\* outside-surface-only flag is set, and MST 32 exactly when moreover the
\* frontsheet is glass
C16_LoadAndHailUnlessOutsideTreatment ==
  call.fn = "rules_frontsheet" =>
    LET outside == IsSet("surface_treatment_changed") /\ IsSet("outside_surface_only")
    IN /\ ContributedWhen(~outside, {"MQT 16", "MQT 17"}, {"MST 34"})
       /\ ContributedWhen(IsGlass /\ ~outside, {}, {"MST 32"})

\* the flag set without a surface treatment change, and the static load
\* test contributed
C16_Witness ==
  /\ call.fn = "rules_frontsheet"
  /\ IsSet("outside_surface_only")
  /\ ~IsSet("surface_treatment_changed")
  /\ Contributed("IEC 61730", "MST 34")
  /\ Contributed("IEC 61730", "MST 32")

\* C17: the frontsheet rule contributes MQT 10, MQT 20, MQT 11-50 and MQT 12,
\* and MST 54, MST 51-50 and MST 52, exactly when it is not the case that
\* the frontsheet is glass with UV cutoff ">= previous", and contributes
\* MQT 14.1 and MST 42 exactly when moreover the junction box is on the
\* frontsheet
C17_UVBlockUnlessGlassWithCutoffKept ==
  call.fn = "rules_frontsheet" =>
    LET block == ~(IsGlass /\ IsStr(Get(call.p, "ar_lambda_c_uv_change", S("unknown")),
                                    ">= previous"))
    IN /\ ContributedWhen(block, {"MQT 10", "MQT 20", "MQT 11-50", "MQT 12"},
                          {"MST 54", "MST 51-50", "MST 52"})
       /\ ContributedWhen(block /\ IsSet("jb_on_frontsheet"), {"MQT 14.1"}, {"MST 42"})

\* a glass frontsheet with the cutoff kept and the junction box on it: no
\* block and no retention test
C17_Witness ==
  /\ call.fn = "rules_frontsheet"
  /\ IsGlass
  /\ Get(call.p, "ar_lambda_c_uv_change", None) = S(">= previous")
  /\ IsSet("jb_on_frontsheet")
  /\ ContributedNone("IEC 61215", {"MQT 10", "MQT 14.1"})
  /\ ContributedNone("IEC 61730", {"MST 54", "MST 42"})

\* C18: with IEC 61730 included, the frontsheet rule on a non-glass
\* frontsheet contributes MST 04, MST 12, MST 24 and the sequence flag
\* (SEQ_B, 4.2.1/4.3.1), and MST 14 exactly when the model designation
\* changed or the thickness change is negative; on a glass frontsheet it
\* contributes none of the four tests and no sequence flag
C18_NonGlassInsulationSet ==
  (call.fn = "rules_frontsheet" /\ call.include_61730) =>
    IF ~IsGlass
    THEN /\ ContributedAll("IEC 61730", {"MST 04", "MST 12", "MST 24"})
         /\ seq_flags = {<<"SEQ_B", "4.2.1/4.3.1">>}
         /\ Contributed("IEC 61730", "MST 14")
              <=> (IsSet("model_designation_change")
                   \/ Num(OrZero(Get(call.p, "thickness_change_pct", None))) < 0)
    ELSE /\ ContributedNone("IEC 61730", {"MST 04", "MST 12", "MST 14", "MST 24"})
         /\ seq_flags = {}

\* a thinner non-glass frontsheet, with the impulse voltage test contributed
C18_Witness ==
  /\ call.fn = "rules_frontsheet"
  /\ call.include_61730
  /\ ~IsGlass
  /\ ~IsSet("model_designation_change")
  /\ Get(call.p, "thickness_change_pct", None) = N(-1)
  /\ Contributed("IEC 61730", "MST 14")
  /\ <<"SEQ_B", "4.2.1/4.3.1">> \in seq_flags

\* C19: the encapsulation rule contributes MQT 09, MQT 10, MQT 11-50, MQT 12
\* and MQT 13, and MST 22, MST 54, MST 51-50, MST 52 and MST 53, whatever its
\* parameters, and contributes MQT 11-200 and MST 51-200 exactly when the
\* thickness change is below -20 percent
C19_EncapsulationSetAndTC200 ==
  call.fn = "rules_encapsulation" =>
    /\ status = "returned"
    /\ ContributedAll("IEC 61215", {"MQT 09", "MQT 10", "MQT 11-50", "MQT 12", "MQT 13"})
    /\ ContributedAll("IEC 61730", {"MST 22", "MST 54", "MST 51-50", "MST 52", "MST 53"})
    /\ ContributedWhen(Num(OrZero(Get(call.p, "thickness_change_pct", None))) < -20,
                       {"MQT 11-200"}, {"MST 51-200"})

\* a reduction of exactly 20 percent, without TC200
C19_Witness ==
  /\ call.fn = "rules_encapsulation"
  /\ Get(call.p, "thickness_change_pct", None) = N(-20)
  /\ call.include_61215 /\ call.include_61730
  /\ Contributed("IEC 61215", "MQT 13")
  /\ ContributedNone("IEC 61215", {"MQT 11-200"})
  /\ ContributedNone("IEC 61730", {"MST 51-200"})

\* C20: the WBT cell-technology rule contributes MQT 21 exactly when one of
\* technology change, AR change, crystallization change and manufacturer
\* change is set, and MST 26 exactly when crystallization change is not set;
\* it contributes MQT 20, MQT 11-50, MQT 12, MQT 09, MQT 11-200 and MQT 13,
\* and MST 22, MST 51-200 and MST 53, whatever its parameters
C20_CellTechnologyPIDAndReverseCurrent ==
  call.fn = "rules_cell_technology_wbt" =>
    /\ ContributedWhen(\/ IsSet("tech_change") \/ IsSet("ar_change")
                       \/ IsSet("crystallization_change") \/ IsSet("manufacturer_change"),
                       {"MQT 21"}, {})
    /\ ContributedWhen(~IsSet("crystallization_change"), {}, {"MST 26"})
    /\ ContributedAll("IEC 61215",
                      {"MQT 20", "MQT 11-50", "MQT 12", "MQT 09", "MQT 11-200", "MQT 13"})
    /\ ContributedAll("IEC 61730", {"MST 22", "MST 51-200", "MST 53"})

\* C21: with IEC 61730 included, the electrical-termination rule contributes
\* MST 24 and the sequence flag (SEQ_B, 4.2.6) when adhesive change is set and
\* MST 26 when it is not: one of the two, never both and never neither
C21_IgnitabilityOrReverseCurrent ==
  (call.fn = "rules_electrical_termination" /\ call.include_61730) =>
    /\ status = "returned"
    /\ Contributed("IEC 61730", "MST 24") <=> IsSet("adhesive_change")
    /\ (<<"SEQ_B", "4.2.6">> \in seq_flags) <=> IsSet("adhesive_change")
    /\ Contributed("IEC 61730", "MST 26") <=> ~IsSet("adhesive_change")

\* an adhesive change: ignitability with its flag, no reverse-current overload
C21_Witness ==
  /\ call.fn = "rules_electrical_termination"
  /\ call.include_61730
  /\ IsSet("adhesive_change")
  /\ Contributed("IEC 61730", "MST 24")
  /\ ~Contributed("IEC 61730", "MST 26")
  /\ <<"SEQ_B", "4.2.6">> \in seq_flags

\* C22: the WBT electrical-circuitry rule does not contribute MQT 18 or
\* MST 25 on an Isc increase of exactly 10 percent, and with IEC 61730
\* included it contributes MST 26 on an operating V/I increase of exactly
\* 10 percent
C22_ThresholdsAtTheBoundary ==
  call.fn = "rules_electrical_circuitry_wbt" =>
    /\ Get(call.p, "isc_increase_pct", None) = N(10) =>
         /\ ContributedNone("IEC 61215", {"MQT 18"})
         /\ ContributedNone("IEC 61730", {"MST 25"})
    /\ (Get(call.p, "operating_v_or_i_increase_pct", None) = N(10) /\ call.include_61730) =>
         Contributed("IEC 61730", "MST 26")

\* C23: the module-size rule contributes nothing when the size increase is
\* 20 percent or less, whatever the other flags; above 20 percent it
\* contributes MQT 11-200, MQT 13 and MQT 16, and MST 51-200, MST 53, MST 34
\* and MST 32, for each included standard, MQT 17 exactly when moreover
\* non-tempered/non-glass is set and MQT 22 exactly when moreover the module
\* is flexible
C23_ModuleSizeAbove20 ==
  call.fn = "rules_module_size" =>
    LET inc == Get(call.p, "increase_pct", N(0))
    IN IF ~CmpRaises(inc) /\ Num(inc) > 20
       THEN /\ status = "returned"
            /\ ContributedAll("IEC 61215", {"MQT 11-200", "MQT 13", "MQT 16"})
            /\ ContributedAll("IEC 61730", {"MST 51-200", "MST 53", "MST 34", "MST 32"})
            /\ ContributedWhen(IsSet("non_tempered_or_nonglass"), {"MQT 17"}, {})
            /\ ContributedWhen(IsSet("flexible_module"), {"MQT 22"}, {})
            /\ Cardinality(Rows(plan)) <= 9
       ELSE plan = <<>>

\* an increase of exactly 20 percent of a non-tempered module: nothing
C23_Witness ==
  /\ call.fn = "rules_module_size"
  /\ Get(call.p, "increase_pct", None) = N(20)
  /\ IsSet("non_tempered_or_nonglass")
  /\ status = "returned"
  /\ plan = <<>>

\* C24: the bifacial rule called with the include-TC50-block option off
\* contributes none of MQT 10, MQT 20, MQT 11-50 and MQT 12 and none of
\* MST 54, MST 51-50 and MST 52, and still contributes MQT 11-200, MQT 04,
\* MQT 07, MQT 09 and MQT 18.1, and MST 51-200, MST 22 and MST 25, for each
\* included standard
C24_NoTC50BlockWhenOptionOff ==
  (/\ call.fn = "rules_monofacial_to_bifacial"
   /\ "include_tc50_block" \in DOMAIN call.p
   /\ ~IsSet("include_tc50_block")) =>
    /\ ContributedNone("IEC 61215", {"MQT 10", "MQT 20", "MQT 11-50", "MQT 12"})
    /\ ContributedNone("IEC 61730", {"MST 54", "MST 51-50", "MST 52"})
    /\ ContributedAll("IEC 61215", {"MQT 11-200", "MQT 04", "MQT 07", "MQT 09", "MQT 18.1"})
    /\ ContributedAll("IEC 61730", {"MST 51-200", "MST 22", "MST 25"})

\* the pollution-degree-1 checkbox of a category and the clause its rule
\* function cites with the flag
PD1Box ==
  ("Encapsulation" :> "encap.pollution_degree_1")
  @@ ("Backsheet" :> "backsheet.pollution_degree_1")
  @@ ("Electrical termination" :> "term.pollution_degree_1")

PD1Clause ==
  ("Encapsulation" :> "4.2.2") @@ ("Backsheet" :> "4.2.5/4.3.9")
  @@ ("Electrical termination" :> "4.2.6")

\* C25: the sequence flags of a Generate hold a SEQ_B1 pair exactly when
\* IEC 61730 is in the program and a selected category among Encapsulation,
\* Backsheet and Electrical termination has its pollution-degree-1 checkbox
\* ticked: the SEQ_B1 pairs are those of these categories, with their clause
C25_SequenceB1OfPollutionDegree1 ==
  status = "plan" =>
    {f \in seq_flags : f[1] = "SEQ_B1"}
      = {<<"SEQ_B1", PD1Clause[m]>> :
           m \in {x \in DOMAIN PD1Box \cap mods :
                    include_61730 /\ Truthy(params[PD1Box[x]])}}

\* a backsheet qualified for pollution degree 1, and its flag in the result
C25_Witness ==
  /\ status = "plan"
  /\ "Backsheet" \in mods
  /\ Truthy(params["backsheet.pollution_degree_1"])
  /\ <<"SEQ_B1", "4.2.5/4.3.9">> \in seq_flags

\* the params dict of a run on the selection sub with every widget that
\* stays rendered at the value it has
ParamsKept(sub) == [k \in RenderedKeys(tech, sub) |-> params[k]]

\* what Generate gives for the current inputs with the selection sub
OfSelection(sub) == build_plan(tech, program, gate_block, gate_input, sub, ParamsKept(sub))

\* the result shown holds every row, with its clause references and
\* reasons, every note and every sequence flag of the result r
ContainsResult(r) ==
  /\ r.status = "plan"
  /\ \A i \in 1..Len(r.df) :
       \E j \in 1..Len(df) :
         /\ df[j].Standard = r.df[i].Standard
         /\ df[j].TestID = r.df[i].TestID
         /\ df[j].TestName = r.df[i].TestName
         /\ r.df[i].ClauseRef \subseteq df[j].ClauseRef
         /\ r.df[i].Reasons \subseteq df[j].Reasons
  /\ \A i \in 1..Len(r.notes) : \E j \in 1..Len(notes) : notes[j] = r.notes[i]
  /\ r.seq_flags \subseteq seq_flags

\* C26: the result of a Generate holds every test row, clause reference,
\* reason, note and sequence flag of the result for every subset of the
\* selected modifications, with the program and every parameter as they are
C26_SelectionIsMonotone ==
  status = "plan" =>
    \A sub \in (SUBSET mods) \ {mods} :
      \E r \in {OfSelection(sub)} : ContainsResult(r)

\* two modifications selected, and a row that has a clause reference of
\* each of them
C26_Witness ==
  /\ status = "plan"
  /\ Cardinality(mods) = 2
  /\ \E i \in 1..Len(df) :
       \A m \in mods : \E c \in df[i].ClauseRef :
         c \in DOMAIN CategoryOfClause /\ CategoryOfClause[c] = m

\* the Test IDs that start with "MQT": in the order of string comparison
\* they come before those that start with "MST"
MQTCodes ==
  {SortedTestIDs[i] : i \in {j \in 1..Len(SortedTestIDs) : TestIDRank("MST 01") > j}}

MSTCodes == {SortedTestIDs[i] : i \in 1..Len(SortedTestIDs)} \ MQTCodes

\* C27: in the result of a Generate every row of Standard IEC 61215 has an
\* MQT code and every row of Standard IEC 61730 an MST code, every row is of
\* a standard in the program, and there is no sequence flag when IEC 61730
\* is not in the program
C27_RowsOfTheProgramScope ==
  status = "plan" =>
    /\ \A i \in 1..Len(df) :
         \/ /\ df[i].Standard = "IEC 61215"
            /\ df[i].TestID \in MQTCodes
            /\ include_61215
         \/ /\ df[i].Standard = "IEC 61730"
            /\ df[i].TestID \in MSTCodes
            /\ include_61730
    /\ ~include_61730 => seq_flags = {}

\* a higher OCP rating under the IEC 61215 program: the baseline rows only
C27_Witness ==
  /\ status = "plan"
  /\ ~include_61730
  /\ "Increase OCP rating" \in mods
  /\ Truthy(params["ocp.ocp_increased"])
  /\ Len(df) = 5
  /\ seq_flags = {}

\* TESTS_61215 for IEC 61215, TESTS_61730 for IEC 61730
TestsOf(standard) == IF standard = "IEC 61215" THEN TESTS_61215 ELSE TESTS_61730

\* C28: every test that baseline_checks or a rule function has added has a
\* code that is a key of the dictionary of its standard, and its Test name
\* is the description the dictionary gives, never the code itself
C28_EveryCodeInItsDictionary ==
  \A i \in Rows(plan) :
    /\ plan[i].TestID \in DOMAIN TestsOf(plan[i].Standard)
    /\ plan[i].TestName = TestsOf(plan[i].Standard)[plan[i].TestID]
    /\ plan[i].TestName # plan[i].TestID

\* the bifacial rule has added the bifacial variant of the bypass diode test
C28_Witness ==
  /\ call.fn = "rules_monofacial_to_bifacial"
  /\ \E i \in Rows(plan) :
       /\ plan[i].key = <<"IEC 61215", "MQT 18.1">>
       /\ plan[i].TestName = "Bypass diode thermal test (bifacial context)"

\* the clauses the MLI thin-film rule cites
MLIClauses == {"4.3.3", "4.3.6", "4.3.7", "4.3.8"}

\* C29: under MLI technology the result of a Generate is the one of the
\* selection without the WBT-only categories, and no row cites the clause
\* of a WBT-only category; under WBT technology no MLI category is selected
\* and no row cites a clause of the MLI thin-film rule
C29_TechnologyGatesItsCategories ==
  status = "plan" =>
    /\ tech = MLI =>
         /\ \E r \in {OfSelection(mods \ WBTOnlyMods)} :
              /\ r.status = "plan"
              /\ r.df = df
              /\ r.notes = notes
              /\ r.seq_flags = seq_flags
         /\ \A i \in 1..Len(df) : \A c \in df[i].ClauseRef :
              c \in DOMAIN CategoryOfClause => CategoryOfClause[c] \notin WBTOnlyMods
    /\ tech = WBT =>
         /\ mods \cap MLIMods = {}
         /\ \A i \in 1..Len(df) : df[i].ClauseRef \cap MLIClauses = {}

\* MLI technology with a WBT-only category selected: the baseline rows only
C29_Witness ==
  /\ status = "plan"
  /\ tech = MLI
  /\ mods \cap WBTOnlyMods # {}
  /\ mods \subseteq WBTOnlyMods
  /\ include_61215 /\ include_61730
  /\ Len(df) = 9

\* C30: a run that an input change triggers displays no plan, and a run that
\* displays a plan has the inputs of the state before it (the button was
\* clicked, nothing else changed) and displays the table, notes and
\* sequence flags computed from these inputs: no step leaves a plan of
\* other inputs on display
C30_NoStalePlan ==
  [][/\ inputs' # inputs =>
          /\ status' = "idle"
          /\ outputs' = <<<<>>, {}, EmptyDict, <<>>, <<>>>>
     /\ status' = "plan" =>
          /\ inputs' = inputs
          /\ \E r \in {build_plan(tech', program', gate_block', gate_input', mods', params')} :
               /\ r.status = "plan"
               /\ df' = r.df
               /\ notes' = r.notes
               /\ seq_flags' = r.seq_flags]_vars

\* a plan on display three edits into the session, with tests of the
\* selected modification
C30_Witness ==
  /\ status = "plan"
  /\ EditsOf(tech, program, gate_block, gate_input, mods, params) >= 3
  /\ mods # {}
  /\ \E i \in 1..Len(df) : "4.1" \notin df[i].ClauseRef

====
